---------------------------- MODULE Spec2Model ----------------------------
(***************************************************************************)
(* Model of the table engine of md-table-buddy (src/tableUtils.ts): line   *)
(* classification, table discovery, the compact and max-width formatters   *)
(* and the row mutators.  Text is modelled character by character: a       *)
(* string is a sequence of one-character strings, so trimming, splitting   *)
(* on the pipe and the separator grammar are computed as the code computes *)
(* them.  Line and row indices are 0-based as in the code; At(s, i) reads  *)
(* element i of a sequence.                                                *)
(***************************************************************************)
EXTENDS Integers, Sequences, FiniteSets, TLC

VARIABLES
    lines,              \* the document snapshot: a sequence of lines
    ignoreCodeBlocks,   \* the flag handed to findTables / findTableAtPosition
    tables,             \* the value returned by the last findTables call
    table,              \* the table the host is working on (Absent if none)
    op,                 \* the last operation and its arguments
    result,             \* the value returned by the last operation
    pc                  \* where the host stands: "edit", "located", "done"

vars == <<lines, ignoreCodeBlocks, tables, table, op, result, pc>>

-----------------------------------------------------------------------------
(* Values *)

\* undefined / null returned by the code
Absent == [absent |-> TRUE]

Max(a, b) == IF a >= b THEN a ELSE b

Min(a, b) == IF a <= b THEN a ELSE b

\* 0-based element access, as the code indexes arrays
At(s, i) == s[i + 1]

\* String.prototype.repeat
Repeat(c, n) == [k \in 1..Max(0, n) |-> c]

-----------------------------------------------------------------------------
(* Strings *)

\* the backtick, which a TLA+ string cannot hold: one character of the model
Backtick == "bq"

Tilde == "~"

IsSpace(c) == c = " "

RECURSIVE TrimStart(_)
TrimStart(s) ==
    IF s # <<>> /\ IsSpace(Head(s)) THEN TrimStart(Tail(s)) ELSE s

RECURSIVE TrimEnd(_)
TrimEnd(s) ==
    IF s # <<>> /\ IsSpace(s[Len(s)]) THEN TrimEnd(SubSeq(s, 1, Len(s) - 1)) ELSE s

\* String.prototype.trim
Trim(s) == TrimEnd(TrimStart(s))

\* String.prototype.startsWith
StartsWith(s, p) == Len(s) >= Len(p) /\ SubSeq(s, 1, Len(p)) = p

\* String.prototype.endsWith
EndsWith(s, p) == Len(s) >= Len(p) /\ SubSeq(s, Len(s) - Len(p) + 1, Len(s)) = p

\* s.slice(1, -1)
SliceInner(s) == SubSeq(s, 2, Len(s) - 1)

\* s.split(d) for a one-character delimiter d: always at least one piece
RECURSIVE SplitAcc(_, _, _, _)
SplitAcc(s, d, cur, acc) ==
    IF s = <<>> THEN Append(acc, cur)
    ELSE IF Head(s) = d THEN SplitAcc(Tail(s), d, <<>>, Append(acc, cur))
    ELSE SplitAcc(Tail(s), d, Append(cur, Head(s)), acc)

Split(s, d) == SplitAcc(s, d, <<>>, <<>>)

\* pieces.join(d)
RECURSIVE Join(_, _)
Join(pieces, d) ==
    IF pieces = <<>> THEN <<>>
    ELSE IF Len(pieces) = 1 THEN pieces[1]
    ELSE pieces[1] \o <<d>> \o Join(Tail(pieces), d)

\* s.replace(/c/g, '')
RECURSIVE RemoveChar(_, _)
RemoveChar(s, c) ==
    IF s = <<>> THEN <<>>
    ELSE IF Head(s) = c THEN RemoveChar(Tail(s), c)
    ELSE <<Head(s)>> \o RemoveChar(Tail(s), c)

AllDashes(s) == \A k \in 1..Len(s) : s[k] = "-"

-----------------------------------------------------------------------------
(* Basic table parsing *)

isTableRow(line) ==
    LET trimmed == Trim(line)
    IN  StartsWith(trimmed, <<"|">>) /\ EndsWith(trimmed, <<"|">>)

\* the regular expression /^\s*:?-+:?\s*$/
SeparatorCellRegex(cell) ==
    LET t  == Trim(cell)
        t1 == IF StartsWith(t, <<":">>) THEN Tail(t) ELSE t
        t2 == IF EndsWith(t1, <<":">>) THEN SubSeq(t1, 1, Len(t1) - 1) ELSE t1
    IN  t2 # <<>> /\ AllDashes(t2)

isTableSeparator(line) ==
    LET trimmed == Trim(line)
    IN  IF ~StartsWith(trimmed, <<"|">>) \/ ~EndsWith(trimmed, <<"|">>) THEN FALSE
        ELSE LET cells == Split(SliceInner(trimmed), "|")
             IN  \A k \in 1..Len(cells) : SeparatorCellRegex(cells[k])

\* a slip: the cells are split but not trimmed
parseTableRowUntrimmed(line) == Split(SliceInner(Trim(line)), "|")

parseTableRow(line) ==
    LET trimmed == Trim(line)
        content == SliceInner(trimmed)
        cells   == Split(content, "|")
    IN  [k \in 1..Len(cells) |-> Trim(cells[k])]

getAlignmentFromSeparator(cell) ==
    LET trimmed    == Trim(cell)
        leftAlign  == StartsWith(trimmed, <<":">>)
        rightAlign == EndsWith(trimmed, <<":">>)
    IN  IF leftAlign /\ rightAlign THEN "center"
        ELSE IF rightAlign THEN "right"
        ELSE IF leftAlign THEN "left"
        ELSE "none"

parseAlignments(separatorRow) ==
    [k \in 1..Len(separatorRow) |-> getAlignmentFromSeparator(separatorRow[k])]

\* the loop of findCodeBlockRanges from line i on; st carries inCodeBlock,
\* codeBlockStart, codeBlockDelimiter and the ranges found so far
RECURSIVE CodeBlockScan(_, _, _)
CodeBlockScan(ls, i, st) ==
    IF i >= Len(ls) THEN
        IF st.inCodeBlock /\ st.codeBlockStart # -1
        THEN Append(st.ranges, [start |-> st.codeBlockStart, end |-> Len(ls) - 1])
        ELSE st.ranges
    ELSE
        LET trimmed == Trim(At(ls, i))
        IN  IF ~st.inCodeBlock THEN
                IF StartsWith(trimmed, <<Backtick, Backtick, Backtick>>)
                   \/ StartsWith(trimmed, <<Tilde, Tilde, Tilde>>)
                THEN CodeBlockScan(ls, i + 1,
                        [st EXCEPT !.inCodeBlock = TRUE, !.codeBlockStart = i,
                                   !.codeBlockDelimiter = SubSeq(trimmed, 1, 3)])
                ELSE CodeBlockScan(ls, i + 1, st)
            ELSE
                IF StartsWith(trimmed, st.codeBlockDelimiter)
                   /\ Trim(RemoveChar(RemoveChar(trimmed, Backtick), Tilde)) = <<>>
                THEN CodeBlockScan(ls, i + 1,
                        [inCodeBlock |-> FALSE, codeBlockStart |-> -1,
                         codeBlockDelimiter |-> <<>>,
                         ranges |-> Append(st.ranges, [start |-> st.codeBlockStart, end |-> i])])
                ELSE CodeBlockScan(ls, i + 1, st)

findCodeBlockRanges(ls) ==
    CodeBlockScan(ls, 0, [inCodeBlock |-> FALSE, codeBlockStart |-> -1,
                          codeBlockDelimiter |-> <<>>, ranges |-> <<>>])

\* a slip: the end of the range is not compared
isLineInCodeBlockNoEnd(lineNumber, codeBlockRanges) ==
    \E k \in 1..Len(codeBlockRanges) : lineNumber >= codeBlockRanges[k].start

isLineInCodeBlock(lineNumber, codeBlockRanges) ==
    \E k \in 1..Len(codeBlockRanges) :
        lineNumber >= codeBlockRanges[k].start /\ lineNumber <= codeBlockRanges[k].end

\* the inner while loop of findTables: consumes the run of table rows that
\* starts at line i; run carries i, rows, separatorIndex and alignments
RECURSIVE TableRun(_, _, _, _)
TableRun(ls, flag, ranges, run) ==
    IF ~(run.i < Len(ls) /\ isTableRow(At(ls, run.i))) THEN run
    ELSE IF flag /\ isLineInCodeBlock(run.i, ranges) THEN run
    ELSE
        LET cells == parseTableRow(At(ls, run.i))
            rows  == Append(run.rows, cells)
            isSep == run.separatorIndex = -1 /\ isTableSeparator(At(ls, run.i))
        IN  TableRun(ls, flag, ranges,
                [i |-> run.i + 1,
                 rows |-> rows,
                 separatorIndex |-> IF isSep THEN Len(rows) - 1 ELSE run.separatorIndex,
                 alignments |-> IF isSep THEN parseAlignments(cells) ELSE run.alignments])

\* a slip: any run that holds a separator somewhere after its header
RunQualifiesAnySeparator(run) == Len(run.rows) >= 2 /\ run.separatorIndex >= 1

\* the acceptance test of findTables for a consumed run
RunQualifies(run) == Len(run.rows) >= 2 /\ run.separatorIndex = 1

\* a slip: unshift in place of push
PushTableFront(acc, t) == <<t>> \o acc

\* tables.push(...)
PushTable(acc, t) == Append(acc, t)

\* the outer while loop of findTables from line i on
RECURSIVE FindTablesFrom(_, _, _, _, _)
FindTablesFrom(ls, flag, ranges, i, acc) ==
    IF i >= Len(ls) THEN acc
    ELSE IF flag /\ isLineInCodeBlock(i, ranges) THEN FindTablesFrom(ls, flag, ranges, i + 1, acc)
    ELSE IF isTableRow(At(ls, i)) THEN
        LET run == TableRun(ls, flag, ranges,
                       [i |-> i, rows |-> <<>>, separatorIndex |-> -1, alignments |-> <<>>])
            acc2 == IF RunQualifies(run)
                    THEN PushTable(acc, [startLine |-> i, endLine |-> run.i - 1,
                                         rows |-> run.rows,
                                         separatorIndex |-> run.separatorIndex,
                                         alignments |-> run.alignments])
                    ELSE acc
        IN  FindTablesFrom(ls, flag, ranges, run.i, acc2)
    ELSE FindTablesFrom(ls, flag, ranges, i + 1, acc)

findTables(ls, flag) ==
    FindTablesFrom(ls, flag, IF flag THEN findCodeBlockRanges(ls) ELSE <<>>, 0, <<>>)

\* a slip: the last line of a table is not counted as part of it
RECURSIVE FindFirstBeforeEnd(_, _)
FindFirstBeforeEnd(ts, lineNumber) ==
    IF ts = <<>> THEN Absent
    ELSE IF lineNumber >= Head(ts).startLine /\ lineNumber < Head(ts).endLine THEN Head(ts)
    ELSE FindFirstBeforeEnd(Tail(ts), lineNumber)

\* Array.prototype.find: the first element that satisfies the test
RECURSIVE FindFirstAt(_, _)
FindFirstAt(ts, lineNumber) ==
    IF ts = <<>> THEN Absent
    ELSE IF lineNumber >= Head(ts).startLine /\ lineNumber <= Head(ts).endLine THEN Head(ts)
    ELSE FindFirstAt(Tail(ts), lineNumber)

findTableAtPosition(ls, lineNumber, flag) ==
    FindFirstAt(findTables(ls, flag), lineNumber)

-----------------------------------------------------------------------------
(* Text manipulation helpers *)

\* an array element, or d where the code reads undefined past the end
ElemOr(s, i, d) == IF 0 <= i /\ i < Len(s) THEN At(s, i) ELSE d

\* n || d for a number n: 0 is falsy
NumOr(n, d) == IF n = 0 THEN d ELSE n

\* a slip: the centre split gives the larger half to the left
padCellCenterLeftHeavy(content, width, alignment) ==
    LET contentLength == Len(content)
        padding == width - contentLength
        leftPad == (padding + 1) \div 2
        rightPad == padding - leftPad
    IN  IF contentLength >= width THEN content
        ELSE CASE alignment = "right"  -> Repeat(" ", padding) \o content
               [] alignment = "center" -> Repeat(" ", leftPad) \o content \o Repeat(" ", rightPad)
               [] OTHER                -> content \o Repeat(" ", padding)

padCell(content, width, alignment) ==
    LET contentLength == Len(content)
        padding == width - contentLength
        leftPad == padding \div 2
        rightPad == padding - leftPad
    IN  IF contentLength >= width THEN content
        ELSE CASE alignment = "right"  -> Repeat(" ", padding) \o content
               [] alignment = "center" -> Repeat(" ", leftPad) \o content \o Repeat(" ", rightPad)
               [] OTHER                -> content \o Repeat(" ", padding)

\* Math.max(...table.rows.map(row => row.length))
RECURSIVE MaxRowLength(_)
MaxRowLength(rows) ==
    IF Len(rows) = 1 THEN Len(rows[1])
    ELSE Max(Len(rows[1]), MaxRowLength(Tail(rows)))

-----------------------------------------------------------------------------
(* Compact table *)

\* a slip: the separator is padded whenever cellPadding is set
createSeparatorCellPadded(cell, width, options, alignment) ==
    LET trimmed    == Trim(cell)
        leftAlign  == alignment = "left" \/ alignment = "center" \/ StartsWith(trimmed, <<":">>)
        rightAlign == alignment = "right" \/ alignment = "center" \/ EndsWith(trimmed, <<":">>)
        dashCount  == Max(1, Max(3, width) - (IF leftAlign THEN 1 ELSE 0)
                                           - (IF rightAlign THEN 1 ELSE 0))
        separator  == (IF leftAlign THEN <<":">> ELSE <<>>) \o Repeat("-", dashCount)
                      \o (IF rightAlign THEN <<":">> ELSE <<>>)
    IN  IF options.cellPadding THEN <<" ">> \o separator \o <<" ">> ELSE separator

\* alignment is "undefined" when the caller passes none
createSeparatorCell(cell, width, options, alignment) ==
    LET trimmed    == Trim(cell)
        leftAlign  == alignment = "left" \/ alignment = "center" \/ StartsWith(trimmed, <<":">>)
        rightAlign == alignment = "right" \/ alignment = "center" \/ EndsWith(trimmed, <<":">>)
        dashCount  == Max(1, Max(3, width) - (IF leftAlign THEN 1 ELSE 0)
                                           - (IF rightAlign THEN 1 ELSE 0))
        dashes     == Repeat("-", dashCount)
        separator  == IF leftAlign /\ rightAlign THEN <<":">> \o dashes \o <<":">>
                      ELSE IF leftAlign THEN <<":">> \o dashes
                      ELSE IF rightAlign THEN dashes \o <<":">>
                      ELSE Repeat("-", Max(3, width))
    IN  IF options.cellPadding /\ options.separatorPadding
        THEN <<" ">> \o separator \o <<" ">>
        ELSE separator

\* Array.prototype.reduce((sum, x) => sum + x, 0)
RECURSIVE Sum(_)
Sum(ns) == IF ns = <<>> THEN 0 ELSE Head(ns) + Sum(Tail(ns))

\* a slip: the share is cut off, not rounded
RoundShareDown(len, originalTotal, targetTotalWidth) ==
    (len * targetTotalWidth) \div originalTotal

\* Math.round(len / originalTotal * targetTotalWidth): the nearest integer,
\* halves upward (exact for the magnitudes of this model, where the floating
\* point product does not fall short of a half)
RoundShare(len, originalTotal, targetTotalWidth) ==
    (2 * len * targetTotalWidth + originalTotal) \div (2 * originalTotal)

calculateProportionalSeparatorWidths(originalSeparators, targetTotalWidth) ==
    LET originalLengths == [k \in 1..Len(originalSeparators) |-> Len(Trim(originalSeparators[k]))]
        originalTotal   == Sum(originalLengths)
        perColumn       == Max(3, targetTotalWidth \div Len(originalSeparators))
    IN  IF originalTotal = 0
        THEN [k \in 1..Len(originalSeparators) |-> perColumn]
        ELSE [k \in 1..Len(originalSeparators) |->
                 Max(3, RoundShare(originalLengths[k], originalTotal, targetTotalWidth))]

\* an optional array argument that was passed
Some(v) == [some |-> v]

\* headerWidths and alignments are Some(array), or Absent when not passed
compactTableRow(cells, isSeparator, options, headerWidths, alignments) ==
    IF isSeparator THEN
        LET compactedCells ==
                [k \in 1..Len(cells) |->
                    LET index == k - 1
                        width == IF options.alignSeparatorWithHeader /\ headerWidths # Absent
                                 THEN NumOr(ElemOr(headerWidths.some, index, 0), 3)
                                 ELSE 3
                        alignment == IF alignments # Absent
                                     THEN ElemOr(alignments.some, index, "undefined")
                                     ELSE "undefined"
                    IN  createSeparatorCell(cells[k], width, options, alignment)]
        IN  <<"|">> \o Join(compactedCells, "|") \o <<"|">>
    ELSE IF options.cellPadding THEN
        <<"|">> \o Join([k \in 1..Len(cells) |-> <<" ">> \o cells[k] \o <<" ">>], "|") \o <<"|">>
    ELSE <<"|">> \o Join(cells, "|") \o <<"|">>

compactTable(t, options) ==
    LET headerRow    == t.rows[1]
        headerWidths == [k \in 1..Len(headerRow) |-> Len(headerRow[k])]
        useRatios    == options.keepSeparatorRatios /\ t.separatorIndex >= 0
        totalContentWidth ==
            Sum([k \in 1..Len(headerWidths) |->
                    IF options.alignSeparatorWithHeader THEN Max(3, headerWidths[k]) ELSE 3])
        separatorWidths ==
            calculateProportionalSeparatorWidths(At(t.rows, t.separatorIndex), totalContentWidth)
    IN  [r \in 1..Len(t.rows) |->
            LET row == t.rows[r]
                isSeparator == (r - 1) = t.separatorIndex
            IN  IF isSeparator /\ useRatios
                THEN <<"|">> \o Join([k \in 1..Len(row) |->
                          createSeparatorCell(row[k], NumOr(ElemOr(separatorWidths, k - 1, 0), 3),
                                              options, ElemOr(t.alignments, k - 1, "undefined"))],
                          "|") \o <<"|">>
                ELSE compactTableRow(row, isSeparator, options,
                                     Some(headerWidths), Some(t.alignments))]

-----------------------------------------------------------------------------
(* Format table *)

\* ' ' + cell + ' ' when padding is on
Padded(cell, on) == IF on THEN <<" ">> \o cell \o <<" ">> ELSE cell

\* columnWidths of formatTable: per column the longest cell of the rows other
\* than the separator row, at least 3
ContentWidths(t) ==
    [c \in 1..MaxRowLength(t.rows) |->
        LET RECURSIVE Widest(_)
            Widest(r) ==
                IF r > Len(t.rows) THEN 3
                ELSE IF (r - 1) = t.separatorIndex \/ c > Len(t.rows[r]) THEN Widest(r + 1)
                ELSE Max(Len(t.rows[r][c]), Widest(r + 1))
        IN  Widest(1)]

\* a slip: the pipe that closes a cell is left out of its width
RECURSIVE BreakScanWithoutPipe(_, _, _, _, _)
BreakScanWithoutPipe(columnWidths, maxWidth, paddingPerCell, colIndex, accumulatedWidth) ==
    IF colIndex >= Len(columnWidths)
    THEN [breakColumnIndex |-> Len(columnWidths), accumulatedBeforeBreak |-> 1]
    ELSE LET colWidth  == NumOr(At(columnWidths, colIndex), 3)
             cellWidth == colWidth + paddingPerCell
         IN  IF accumulatedWidth + cellWidth > maxWidth
             THEN [breakColumnIndex |-> colIndex, accumulatedBeforeBreak |-> accumulatedWidth]
             ELSE BreakScanWithoutPipe(columnWidths, maxWidth, paddingPerCell, colIndex + 1,
                                       accumulatedWidth + cellWidth)

\* the loop that finds the break column, from column colIndex on
RECURSIVE BreakScan(_, _, _, _, _)
BreakScan(columnWidths, maxWidth, paddingPerCell, colIndex, accumulatedWidth) ==
    IF colIndex >= Len(columnWidths)
    THEN [breakColumnIndex |-> Len(columnWidths), accumulatedBeforeBreak |-> 1]
    ELSE LET colWidth  == NumOr(At(columnWidths, colIndex), 3)
             cellWidth == colWidth + paddingPerCell + 1
         IN  IF accumulatedWidth + cellWidth > maxWidth
             THEN [breakColumnIndex |-> colIndex, accumulatedBeforeBreak |-> accumulatedWidth]
             ELSE BreakScan(columnWidths, maxWidth, paddingPerCell, colIndex + 1,
                            accumulatedWidth + cellWidth)

\* breakColumnIndex and accumulatedBeforeBreak of formatTable
BreakColumn(columnWidths, options) ==
    IF options.maxWidth > 0
    THEN BreakScan(columnWidths, options.maxWidth,
                   IF options.cellPadding THEN 2 ELSE 0, 0, 1)
    ELSE [breakColumnIndex |-> Len(columnWidths), accumulatedBeforeBreak |-> 1]

\* availableWidth of formatTable for the break column
AvailableWidth(options, accumulatedBeforeBreak) ==
    options.maxWidth - accumulatedBeforeBreak - (IF options.cellPadding THEN 2 ELSE 0) - 1

\* breakColumnFittingWidth of formatTable
FittingWidth(t, options, columnCount, brk) ==
    IF brk.breakColumnIndex < columnCount /\ options.maxWidth > 0 THEN
        LET availableWidth == AvailableWidth(options, brk.accumulatedBeforeBreak)
            RECURSIVE Fit(_)
            Fit(r) ==
                IF r > Len(t.rows) THEN 3
                ELSE IF (r - 1) = t.separatorIndex THEN Fit(r + 1)
                ELSE LET cell == ElemOr(t.rows[r], brk.breakColumnIndex, <<>>)
                     IN  IF Len(cell) <= availableWidth
                         THEN Max(Len(cell), Fit(r + 1))
                         ELSE Fit(r + 1)
        IN  Fit(1)
    ELSE 3

formatCompactSeparatorCell(cell, alignment, compactOptions, headerWidth) ==
    LET base == IF compactOptions.alignSeparatorWithHeader
                THEN Repeat("-", Max(3, headerWidth))
                ELSE <<"-", "-", "-">>
        separator ==
            CASE alignment = "left"   -> <<":">> \o Tail(base)
              [] alignment = "right"  -> SubSeq(base, 1, Len(base) - 1) \o <<":">>
              [] alignment = "center" -> <<":">> \o SubSeq(base, 2, Len(base) - 1) \o <<":">>
              [] OTHER                -> base
    IN  IF compactOptions.separatorPadding /\ compactOptions.cellPadding
        THEN <<" ">> \o separator \o <<" ">>
        ELSE separator

\* a slip: a break-column cell that does not fit is cut to the fitting width
MaxWidthCellTruncating(cell, colIndex, columnWidths, alignments, options, compactOptions, breakColumnIndex, breakColumnFittingWidth) ==
    LET colWidth  == NumOr(ElemOr(columnWidths, colIndex, 0), Len(cell))
        alignment == ElemOr(alignments, colIndex, "left")
    IN  IF colIndex < breakColumnIndex
        THEN Padded(padCell(cell, colWidth, alignment), options.cellPadding)
        ELSE IF colIndex = breakColumnIndex
        THEN Padded(padCell(SubSeq(cell, 1, Min(Len(cell), breakColumnFittingWidth)),
                            breakColumnFittingWidth, alignment), options.cellPadding)
        ELSE Padded(cell, compactOptions.cellPadding)

\* one cell of a header or data row under maxWidth > 0: the three branches
\* that the header row of formatTable and formatRowWithMaxWidth both spell out
MaxWidthCell(cell, colIndex, columnWidths, alignments, options, compactOptions, breakColumnIndex, breakColumnFittingWidth) ==
    LET colWidth  == NumOr(ElemOr(columnWidths, colIndex, 0), Len(cell))
        alignment == ElemOr(alignments, colIndex, "left")
    IN  IF colIndex < breakColumnIndex
        THEN Padded(padCell(cell, colWidth, alignment), options.cellPadding)
        ELSE IF colIndex = breakColumnIndex THEN
            IF Len(cell) <= breakColumnFittingWidth
            THEN Padded(padCell(cell, breakColumnFittingWidth, alignment), options.cellPadding)
            ELSE Padded(cell, compactOptions.cellPadding)
        ELSE Padded(cell, compactOptions.cellPadding)

formatRowWithMaxWidth(row, columnWidths, alignments, options, compactOptions, breakColumnIndex, breakColumnFittingWidth) ==
    <<"|">> \o Join([k \in 1..Len(row) |->
                MaxWidthCell(row[k], k - 1, columnWidths, alignments, options,
                             compactOptions, breakColumnIndex, breakColumnFittingWidth)],
             "|") \o <<"|">>

\* a header or data row without maxWidth: every cell padded to its column
FullWidthRow(row, columnWidths, alignments, options) ==
    <<"|">> \o Join([k \in 1..Len(row) |->
                Padded(padCell(row[k],
                               NumOr(ElemOr(columnWidths, k - 1, 0), Len(row[k])),
                               ElemOr(alignments, k - 1, "left")),
                       options.cellPadding)],
             "|") \o <<"|">>

\* the separator row of formatTable
FormatSeparatorRow(t, row, options, compactOptions, columnWidths, alignments, brk, fitting) ==
    LET headerRow == IF Len(t.rows) > 0 THEN t.rows[1] ELSE <<>>
        useRatios == options.keepSeparatorRatios /\ t.separatorIndex >= 0
        proportionalSeparatorWidths ==
            calculateProportionalSeparatorWidths(At(t.rows, t.separatorIndex), Sum(columnWidths))
    IN  IF useRatios
        THEN <<"|">> \o Join([k \in 1..Len(row) |->
                  createSeparatorCell(row[k],
                                      NumOr(ElemOr(proportionalSeparatorWidths, k - 1, 0), 3),
                                      options, ElemOr(alignments, k - 1, "none"))],
                  "|") \o <<"|">>
        ELSE <<"|">> \o Join([k \in 1..Len(row) |->
                  LET colIndex   == k - 1
                      colWidth   == NumOr(ElemOr(columnWidths, colIndex, 0), 3)
                      headerCell == ElemOr(headerRow, colIndex, <<>>)
                      alignment  == ElemOr(alignments, colIndex, "none")
                      headerWidth == NumOr(Len(headerCell), 3)
                  IN  IF colIndex < brk.breakColumnIndex
                      THEN createSeparatorCell(row[k], colWidth, options, alignment)
                      ELSE IF colIndex = brk.breakColumnIndex /\ Len(headerCell) <= fitting
                      THEN createSeparatorCell(row[k], fitting, options, alignment)
                      ELSE formatCompactSeparatorCell(row[k], alignment, compactOptions, headerWidth)],
                  "|") \o <<"|">>

formatTable(t, options, compactOptions) ==
    LET processedRows == t.rows
        columnCount   == MaxRowLength(processedRows)
        columnWidths  == ContentWidths(t)
        alignments    == IF options.preserveAlignment THEN t.alignments ELSE <<>>
        brk           == BreakColumn(columnWidths, options)
        fitting       == FittingWidth(t, options, columnCount, brk)
    IN  [r \in 1..Len(processedRows) |->
            LET row == processedRows[r]
                rowIndex == r - 1
            IN  IF rowIndex = t.separatorIndex
                THEN FormatSeparatorRow(t, row, options, compactOptions,
                                        columnWidths, alignments, brk, fitting)
                ELSE IF options.maxWidth > 0
                \* the header row runs the same three branches inline
                THEN formatRowWithMaxWidth(row, columnWidths, alignments, options,
                                           compactOptions, brk.breakColumnIndex, fitting)
                ELSE FullWidthRow(row, columnWidths, alignments, options)]

-----------------------------------------------------------------------------
(* The locator under every small document *)

\* longest document of the locator specification
MaxLines == 5

\* the lines a document of the locator specification is made of
LocatePool ==
    { <<"|", "-", "|", "a", "|">>,                        \* a header or data row
      <<" ", "|", ":", "-", "|", "-", ":", "|", " ">>,    \* an indented separator row
      <<"x", "|">>,                                       \* text that is no table row
      <<Backtick, Backtick, Backtick>>,                   \* a fence of backticks
      <<Tilde, Tilde, Tilde, Tilde>> }                    \* a longer fence of tildes

NoOp == [name |-> "none"]

InitLocate ==
    /\ lines = <<>>
    /\ ignoreCodeBlocks = FALSE
    /\ tables = <<>>
    /\ table = Absent
    /\ op = NoOp
    /\ result = Absent
    /\ pc = "edit"

\* the user types one more line at the end of the document
TypeLine(l) ==
    /\ pc = "edit"
    /\ Len(lines) < MaxLines
    /\ lines' = Append(lines, l)
    /\ UNCHANGED <<ignoreCodeBlocks, tables, table, op, result, pc>>

\* the host calls findTables on the snapshot
FindTables(flag) ==
    /\ pc = "edit"
    /\ ignoreCodeBlocks' = flag
    /\ tables' = findTables(lines, flag)
    /\ op' = [name |-> "findTables"]
    /\ pc' = "located"
    /\ UNCHANGED <<lines, table, result>>

\* the host calls findTableAtPosition with the cursor line
FindTableAtPosition(lineNumber) ==
    /\ pc = "located"
    /\ result' = findTableAtPosition(lines, lineNumber, ignoreCodeBlocks)
    /\ op' = [name |-> "findTableAtPosition", lineNumber |-> lineNumber]
    /\ pc' = "done"
    /\ UNCHANGED <<lines, ignoreCodeBlocks, tables, table>>

NextLocate ==
    \/ \E l \in LocatePool : TypeLine(l)
    \/ \E flag \in BOOLEAN : FindTables(flag)
    \/ \E lineNumber \in -1..Len(lines) : FindTableAtPosition(lineNumber)

SpecLocate == InitLocate /\ [][NextLocate]_vars

-----------------------------------------------------------------------------
(* The formatters under every small table *)

\* longest document of the formatter specification
MaxRows == 3

\* the lines a document of the formatter specification is made of
RowPool ==
    { <<"|", " ", "a", " ", "|", " ", "b", "b", " ", "|">>,                          \* | a | bb |
      <<"|", "a", "b", "c", "d", "e", "|", "a", "b", "c", "d", "e", "f", "g", "h", "|">>,
      <<"|", "|", "x", " ", "y", "|">>,                                              \* ||x y|
      <<"|", "a", "b", "c", "d", "|">>,                                              \* |abcd|
      <<"|", ":", "-", "-", "|", "-", "-", "-", "-", "-", "-", ":", "|">>,           \* |:--|------:|
      <<"|", " ", "-", " ", "|", ":", "-", ":", "|", "-", "|">> }                    \* | - |:-:|-|

\* the maxWidth settings tried: no limit, and limits that put the break
\* column first, last, or nowhere
MaxWidths == {0, 6, 12, 16}

CompactOptionsSet ==
    [cellPadding : BOOLEAN, separatorPadding : BOOLEAN,
     alignSeparatorWithHeader : BOOLEAN, keepSeparatorRatios : BOOLEAN]

FormatOptionsSet ==
    [maxWidth : MaxWidths, cellPadding : BOOLEAN, separatorPadding : BOOLEAN,
     preserveAlignment : BOOLEAN, keepSeparatorRatios : BOOLEAN]

\* the compact options formatTable reads; it never reads keepSeparatorRatios
FormatCompactOptionsSet == { o \in CompactOptionsSet : ~o.keepSeparatorRatios }

\* a sequence of output lines as the value of result
Lines(ls) == [lines |-> ls]

InitFormat ==
    /\ lines = <<>>
    /\ ignoreCodeBlocks = FALSE
    /\ tables = <<>>
    /\ table = Absent
    /\ op = NoOp
    /\ result = Absent
    /\ pc = "edit"

\* the user types one more table line at the end of the document
TypeRow(l) ==
    /\ pc = "edit"
    /\ Len(lines) < MaxRows
    /\ lines' = Append(lines, l)
    /\ UNCHANGED <<ignoreCodeBlocks, tables, table, op, result, pc>>

\* the host looks up the table under the cursor (getEditorAndTable)
LocateTable(lineNumber) ==
    /\ pc = "edit"
    /\ LET t == findTableAtPosition(lines, lineNumber, ignoreCodeBlocks)
       IN  /\ t # Absent
           /\ table' = t
    /\ tables' = findTables(lines, ignoreCodeBlocks)
    /\ op' = [name |-> "findTableAtPosition"]
    /\ pc' = "located"
    /\ UNCHANGED <<lines, ignoreCodeBlocks, result>>

CompactTable(options) ==
    /\ pc = "located"
    /\ result' = Lines(compactTable(table, options))
    /\ op' = [name |-> "compactTable", options |-> options]
    /\ pc' = "done"
    /\ UNCHANGED <<lines, ignoreCodeBlocks, tables, table>>

FormatTable(options, compactOptions) ==
    /\ pc = "located"
    /\ result' = Lines(formatTable(table, options, compactOptions))
    /\ op' = [name |-> "formatTable", options |-> options, compactOptions |-> compactOptions]
    /\ pc' = "done"
    /\ UNCHANGED <<lines, ignoreCodeBlocks, tables, table>>

\* the lines a formatter returned are located again
RelocateOutput ==
    /\ pc = "done"
    /\ op.name = "compactTable"
    /\ tables' = findTables(result.lines, ignoreCodeBlocks)
    /\ pc' = "relocated"
    /\ UNCHANGED <<lines, ignoreCodeBlocks, table, op, result>>

NextFormat ==
    \/ \E l \in RowPool : TypeRow(l)
    \/ \E lineNumber \in 0..Len(lines) - 1 : LocateTable(lineNumber)
    \/ \E options \in CompactOptionsSet : CompactTable(options)
    \/ \E options \in FormatOptionsSet, compactOptions \in FormatCompactOptionsSet :
          FormatTable(options, compactOptions)
    \/ RelocateOutput

SpecFormat == InitFormat /\ [][NextFormat]_vars

-----------------------------------------------------------------------------
(* Row mutators *)

\* Array.prototype.splice(start, deleteCount, ...items) on a copy, for
\* 0 <= start; a start past the end is clamped to the length
Splice(s, start, deleteCount, items) ==
    LET from == Min(start, Len(s))
        upto == Min(from + deleteCount, Len(s))
    IN  SubSeq(s, 1, from) \o items \o SubSeq(s, upto + 1, Len(s))

\* the while loop of insertRow: push '' until there are columnCount cells
PadCells(newCells, columnCount) ==
    newCells \o Repeat(<<>>, columnCount - Len(newCells))

insertRow(t, rowIndex, cells) ==
    LET columnCount == Len(t.rows[1])
        newCells == PadCells(IF cells = Absent THEN Repeat(<<>>, columnCount) ELSE cells.some,
                             columnCount)
        newRows == Splice(t.rows, rowIndex, 0, <<newCells>>)
        newSeparatorIndex == IF rowIndex <= t.separatorIndex
                             THEN t.separatorIndex + 1
                             ELSE t.separatorIndex
    IN  [t EXCEPT !.rows = newRows,
                  !.separatorIndex = newSeparatorIndex,
                  !.endLine = t.endLine + 1]

\* removeRow without its guard
removeRowUnguarded(t, rowIndex) ==
    [t EXCEPT !.rows = Splice(t.rows, rowIndex, 1, <<>>),
              !.separatorIndex = IF rowIndex < t.separatorIndex
                                 THEN t.separatorIndex - 1
                                 ELSE t.separatorIndex,
              !.endLine = t.endLine - 1]

removeRow(t, rowIndex) ==
    IF rowIndex = 0 \/ rowIndex = t.separatorIndex THEN Absent
    ELSE [t EXCEPT !.rows = Splice(t.rows, rowIndex, 1, <<>>),
                   !.separatorIndex = IF rowIndex < t.separatorIndex
                                      THEN t.separatorIndex - 1
                                      ELSE t.separatorIndex,
                   !.endLine = t.endLine - 1]

\* [a[i], a[j]] = [a[j], a[i]] on a copy of the array: both elements are
\* assigned, so the array grows to hold them, undefined where nothing was
SwapAt(a, i, j) ==
    [k \in 1..Max(Len(a), Max(i, j) + 1) |->
        IF k = i + 1 THEN ElemOr(a, j, Absent)
        ELSE IF k = j + 1 THEN ElemOr(a, i, Absent)
        ELSE ElemOr(a, k - 1, Absent)]

moveRow(t, rowIndex, direction) ==
    IF rowIndex = 0 \/ rowIndex = t.separatorIndex THEN Absent
    ELSE LET targetIndex == IF direction = "up" THEN rowIndex - 1 ELSE rowIndex + 1
         IN  IF \/ targetIndex = 0
                \/ targetIndex = t.separatorIndex
                \/ targetIndex < 0
                \/ targetIndex >= Len(t.rows)
             THEN Absent
             ELSE [t EXCEPT !.rows = SwapAt(t.rows, rowIndex, targetIndex)]

\* an operation that ended in an exception of the given kind
Raised(kind) == [raised |-> kind]

\* past the last row table.rows[rowIndex] is undefined, and spreading it
\* raises
duplicateRow(t, rowIndex) ==
    IF rowIndex = 0 \/ rowIndex = t.separatorIndex THEN Absent
    ELSE IF rowIndex >= Len(t.rows) THEN Raised("TypeError")
    ELSE insertRow(t, rowIndex + 1, Some(At(t.rows, rowIndex)))

-----------------------------------------------------------------------------
(* The row mutators under every small table *)

\* longest document of the row specification
MaxTableRows == 4

\* the lines a document of the row specification is made of
TableRowPool ==
    { <<"|", " ", "a", " ", "|", " ", "b", "b", " ", "|">>,                 \* | a | bb |
      <<"|", ":", "-", "-", "|", "-", "-", "-", "-", "-", "-", ":", "|">>,  \* |:--|------:|
      <<"|", "a", "b", "c", "d", "|">> }                                    \* |abcd|

\* the cells argument of insertRow: left out, empty, too short, too long
CellsPool ==
    { Absent,
      Some(<<>>),
      Some(<< <<"x">> >>),
      Some(<< <<"x">>, <<>>, <<"y">> >>) }

Directions == {"up", "down"}

InitRows ==
    /\ lines = <<>>
    /\ ignoreCodeBlocks = FALSE
    /\ tables = <<>>
    /\ table = Absent
    /\ op = NoOp
    /\ result = Absent
    /\ pc = "edit"

\* the user types one more table line at the end of the document
TypeTableRow(l) ==
    /\ pc = "edit"
    /\ Len(lines) < MaxTableRows
    /\ lines' = Append(lines, l)
    /\ UNCHANGED <<ignoreCodeBlocks, tables, table, op, result, pc>>

InsertRow(rowIndex, cells) ==
    /\ pc = "located"
    /\ rowIndex <= Len(table.rows)
    /\ result' = insertRow(table, rowIndex, cells)
    /\ op' = [name |-> "insertRow", rowIndex |-> rowIndex, cells |-> cells]
    /\ pc' = "done"
    /\ UNCHANGED <<lines, ignoreCodeBlocks, tables, table>>

RemoveRow(rowIndex) ==
    /\ pc = "located"
    /\ rowIndex < Len(table.rows)
    /\ result' = removeRow(table, rowIndex)
    /\ op' = [name |-> "removeRow", rowIndex |-> rowIndex]
    /\ pc' = "done"
    /\ UNCHANGED <<lines, ignoreCodeBlocks, tables, table>>

MoveRow(rowIndex, direction) ==
    /\ pc = "located"
    /\ rowIndex <= Len(table.rows)
    /\ result' = moveRow(table, rowIndex, direction)
    /\ op' = [name |-> "moveRow", rowIndex |-> rowIndex, direction |-> direction]
    /\ pc' = "done"
    /\ UNCHANGED <<lines, ignoreCodeBlocks, tables, table>>

DuplicateRow(rowIndex) ==
    /\ pc = "located"
    /\ rowIndex < Len(table.rows)
    /\ result' = duplicateRow(table, rowIndex)
    /\ op' = [name |-> "duplicateRow", rowIndex |-> rowIndex]
    /\ pc' = "done"
    /\ UNCHANGED <<lines, ignoreCodeBlocks, tables, table>>

NextRows ==
    \/ \E l \in TableRowPool : TypeTableRow(l)
    \/ \E lineNumber \in 0..Len(lines) - 1 : LocateTable(lineNumber)
    \/ \E rowIndex \in 0..MaxTableRows, cells \in CellsPool : InsertRow(rowIndex, cells)
    \/ \E rowIndex \in 0..MaxTableRows : RemoveRow(rowIndex)
    \/ \E rowIndex \in -1..MaxTableRows, direction \in Directions : MoveRow(rowIndex, direction)
    \/ \E rowIndex \in 0..MaxTableRows : DuplicateRow(rowIndex)

SpecRows == InitRows /\ [][NextRows]_vars

-----------------------------------------------------------------------------
(* Sorting *)

Digits == <<"0", "1", "2", "3", "4", "5", "6", "7", "8", "9">>

IsDigit(c) == \E d \in 1..Len(Digits) : Digits[d] = c

DigitValue(c) == (CHOOSE d \in 1..Len(Digits) : Digits[d] = c) - 1

\* the run of digits at the start of s
RECURSIVE DigitRun(_)
DigitRun(s) ==
    IF s = <<>> \/ ~IsDigit(Head(s)) THEN <<>> ELSE <<Head(s)>> \o DigitRun(Tail(s))

\* the value of a run of digits
RECURSIVE DigitsValue(_)
DigitsValue(ds) ==
    IF ds = <<>> THEN 0 ELSE 10 * DigitsValue(SubSeq(ds, 1, Len(ds) - 1)) + DigitValue(ds[Len(ds)])

RECURSIVE Pow10(_)
Pow10(n) == IF n = 0 THEN 1 ELSE 10 * Pow10(n - 1)

\* a number as the fraction num / den (den a power of ten), or not a number
NaN == [nan |-> TRUE, num |-> 0, den |-> 1]

Number(num, den) == [nan |-> FALSE, num |-> num, den |-> den]

\* x || 0 for a number: NaN and 0 are falsy
OrZero(x) == IF x.nan THEN Number(0, 1) ELSE x

\* the sign of a - b
NumberCompare(a, b) ==
    LET l == a.num * b.den
        r == b.num * a.den
    IN  IF l < r THEN -1 ELSE IF l > r THEN 1 ELSE 0

\* parseFloat on text without exponent: leading white space, an optional
\* sign, digits with an optional fraction (at least one digit in all), and
\* whatever follows is ignored
parseFloat(text) ==
    LET s        == TrimStart(text)
        negative == s # <<>> /\ Head(s) = "-"
        signed   == s # <<>> /\ (Head(s) = "-" \/ Head(s) = "+")
        body     == IF signed THEN Tail(s) ELSE s
        whole    == DigitRun(body)
        rest     == SubSeq(body, Len(whole) + 1, Len(body))
        fraction == IF rest # <<>> /\ Head(rest) = "." THEN DigitRun(Tail(rest)) ELSE <<>>
        value    == DigitsValue(whole \o fraction)
    IN  IF whole = <<>> /\ fraction = <<>> THEN NaN
        ELSE Number(IF negative THEN -value ELSE value, Pow10(Len(fraction)))

\* aVal.replace(/[^0-9.-]/g, '')
RECURSIVE StripNonNumeric(_)
StripNonNumeric(s) ==
    IF s = <<>> THEN <<>>
    ELSE IF IsDigit(Head(s)) \/ Head(s) = "." \/ Head(s) = "-"
         THEN <<Head(s)>> \o StripNonNumeric(Tail(s))
         ELSE StripNonNumeric(Tail(s))

\* the letters of the model's texts, lower case and upper case
LowerCase == <<"a", "b", "m", "n", "o", "r", "u", "w", "x", "y">>

UpperCase == <<"A", "B", "M", "N", "O", "R", "U", "W", "X", "Y">>

IsUpper(c) == \E k \in 1..Len(UpperCase) : UpperCase[k] = c

\* String.prototype.toLowerCase
toLowerCase(s) ==
    [k \in 1..Len(s) |->
        IF IsUpper(s[k]) THEN LowerCase[CHOOSE j \in 1..Len(UpperCase) : UpperCase[j] = s[k]]
        ELSE s[k]]

\* the primary collation weight of a character: punctuation, then digits,
\* then letters regardless of case
PrimaryWeight(c) ==
    IF IsDigit(c) THEN 10 + DigitValue(c)
    ELSE IF \E k \in 1..Len(LowerCase) : LowerCase[k] = c THEN 20 + (CHOOSE k \in 1..Len(LowerCase) : LowerCase[k] = c)
    ELSE IF IsUpper(c) THEN 20 + (CHOOSE k \in 1..Len(UpperCase) : UpperCase[k] = c)
    ELSE IF c = " " THEN 1
    ELSE IF c = "-" THEN 2
    ELSE IF c = "." THEN 3
    ELSE IF c = "#" THEN 4
    ELSE 5

\* the case weight of a character: lower case sorts before upper case
CaseWeight(c) == IF IsUpper(c) THEN 1 ELSE 0

\* lexicographic comparison of two sequences of weights
RECURSIVE WeightCompare(_, _)
WeightCompare(a, b) ==
    IF a = <<>> /\ b = <<>> THEN 0
    ELSE IF a = <<>> THEN -1
    ELSE IF b = <<>> THEN 1
    ELSE IF Head(a) < Head(b) THEN -1
    ELSE IF Head(a) > Head(b) THEN 1
    ELSE WeightCompare(Tail(a), Tail(b))

\* String.prototype.localeCompare with the default collation, on the
\* characters above: the primary weights decide, and case breaks a tie
localeCompare(a, b) ==
    LET primary == WeightCompare([k \in 1..Len(a) |-> PrimaryWeight(a[k])],
                                 [k \in 1..Len(b) |-> PrimaryWeight(b[k])])
    IN  IF primary # 0 THEN primary
        ELSE WeightCompare([k \in 1..Len(a) |-> CaseWeight(a[k])],
                           [k \in 1..Len(b) |-> CaseWeight(b[k])])

\* a date-only text YYYY-MM-DD
IsIsoDate(s) ==
    /\ Len(s) = 10
    /\ \A k \in 1..10 : IF k \in {5, 8} THEN s[k] = "-" ELSE IsDigit(s[k])
    /\ DigitsValue(SubSeq(s, 6, 7)) \in 1..12
    /\ DigitsValue(SubSeq(s, 9, 10)) \in 1..28     \* a day every month has

\* new Date(text).getTime() counted in whole days: the day of a date-only
\* text (midnight UTC), and NaN for text that holds no digit.  The
\* milliseconds are 86400000 times the days, which changes neither the sign
\* of a difference nor which value is 0.  Text in other formats is read by
\* the engine's fallback parser and is not among the model's dates.
DateTime(s) ==
    IF IsIsoDate(s)
    THEN LET year  == DigitsValue(SubSeq(s, 1, 4))
             month == DigitsValue(SubSeq(s, 6, 7))
             day   == DigitsValue(SubSeq(s, 9, 10))
             \* days from 1970-01-01 in the proleptic Gregorian calendar
             y     == IF month <= 2 THEN year - 1 ELSE year
             era   == y \div 400
             yoe   == y - era * 400
             mp    == IF month > 2 THEN month - 3 ELSE month + 9
             doy   == (153 * mp + 2) \div 5 + day - 1
             doe   == yoe * 365 + yoe \div 4 - yoe \div 100 + doy
         IN  Number(era * 146097 + doe - 719468, 1)
    ELSE NaN

\* a slip: the text is parsed as it stands, the other characters left in
NumericComparisonUnstripped(aVal, bVal) ==
    NumberCompare(OrZero(parseFloat(aVal)), OrZero(parseFloat(bVal)))

\* case 'numeric' of the comparator
NumericComparison(aVal, bVal) ==
    NumberCompare(OrZero(parseFloat(StripNonNumeric(aVal))),
                  OrZero(parseFloat(StripNonNumeric(bVal))))

\* the comparator handed to sort, as the sign of its result
SortComparison(a, b, options) ==
    LET aVal == ElemOr(a, options.columnIndex, <<>>)
        bVal == ElemOr(b, options.columnIndex, <<>>)
        comparison ==
            CASE options.sortType = "numeric" -> NumericComparison(aVal, bVal)
              [] options.sortType = "date" ->
                    NumberCompare(OrZero(DateTime(aVal)), OrZero(DateTime(bVal)))
              [] OTHER ->
                    localeCompare(IF options.caseSensitive THEN aVal ELSE toLowerCase(aVal),
                                  IF options.caseSensitive THEN bVal ELSE toLowerCase(bVal))
    IN  IF options.direction = "descending" THEN -comparison ELSE comparison

\* a slip: the new element goes before the elements it compares equal to
RECURSIVE InsertSortedBeforeEqual(_, _, _)
InsertSortedBeforeEqual(sorted, x, options) ==
    IF sorted = <<>> THEN <<x>>
    ELSE IF SortComparison(sorted[Len(sorted)], x, options) < 0 THEN Append(sorted, x)
    ELSE Append(InsertSortedBeforeEqual(SubSeq(sorted, 1, Len(sorted) - 1), x, options),
                sorted[Len(sorted)])

\* one step of the stable sort: x goes behind every element that does not
\* compare greater than it
RECURSIVE InsertSorted(_, _, _)
InsertSorted(sorted, x, options) ==
    IF sorted = <<>> THEN <<x>>
    ELSE IF SortComparison(sorted[Len(sorted)], x, options) <= 0 THEN Append(sorted, x)
    ELSE Append(InsertSorted(SubSeq(sorted, 1, Len(sorted) - 1), x, options),
                sorted[Len(sorted)])

\* Array.prototype.sort with the comparator: a stable sort
RECURSIVE StableSort(_, _)
StableSort(rows, options) ==
    IF rows = <<>> THEN <<>>
    ELSE InsertSorted(StableSort(SubSeq(rows, 1, Len(rows) - 1), options),
                      rows[Len(rows)], options)

\* a slip: only the header row is kept out of the sort
RECURSIVE DataRowsButHeader(_, _)
DataRowsButHeader(t, i) ==
    IF i >= Len(t.rows) THEN <<>>
    ELSE (IF i # 0 THEN <<At(t.rows, i)>> ELSE <<>>) \o DataRowsButHeader(t, i + 1)

\* dataRows of sortTable: the filter over the rows from index i on
RECURSIVE DataRows(_, _)
DataRows(t, i) ==
    IF i >= Len(t.rows) THEN <<>>
    ELSE (IF i # 0 /\ i # t.separatorIndex THEN <<At(t.rows, i)>> ELSE <<>>)
         \o DataRows(t, i + 1)

sortTable(t, options) ==
    LET headerRow      == At(t.rows, 0)
        separatorRow   == At(t.rows, t.separatorIndex)
        sortedDataRows == StableSort(DataRows(t, 0), options)
        newRows == IF options.keepHeaderRow
                   THEN <<headerRow, separatorRow>> \o sortedDataRows
                   ELSE <<headerRow, separatorRow>> \o sortedDataRows
    IN  [t EXCEPT !.rows = newRows]

-----------------------------------------------------------------------------
(* Sorting under every small table *)

\* longest document of the sort specification
MaxSortRows == 5

\* the user types one more table line at the end of the document
TypeSortRow(l) ==
    /\ pc = "edit"
    /\ Len(lines) < MaxSortRows
    /\ lines' = Append(lines, l)
    /\ UNCHANGED <<ignoreCodeBlocks, tables, table, op, result, pc>>

SortTable(options) ==
    /\ pc = "located"
    /\ result' = sortTable(table, options)
    /\ op' = [name |-> "sortTable", options |-> options]
    /\ pc' = "done"
    /\ UNCHANGED <<lines, ignoreCodeBlocks, tables, table>>

\* the lines of a document: texts that differ in case only, numbers, a
\* number broken by a letter, dates.  The SortOptions values: every column
\* and one past the last; a date sort reads the column of the dates (1) or
\* the missing one; caseSensitive varies where it is read
NextSort ==
    \/ \E l \in { <<"|", "b", "|", "2", "0", "2", "4", "-", "0", "1", "-", "0", "2", "|">>,
                   <<"|", "B", "|", "2", "0", "2", "3", "-", "1", "2", "-", "3", "1", "|">>,
                   <<"|", "1", "0", "|", "x", "|">>,
                   <<"|", "2", "|", "y", "|">>,
                   <<"|", "1", "a", "2", "|", "|">>,
                   <<"|", "-", "|", "-", "|">> } : TypeSortRow(l)
    \/ \E lineNumber \in 0..Len(lines) - 1 : LocateTable(lineNumber)
    \/ \E options \in { o \in [columnIndex : 0..2, direction : {"ascending", "descending"},
                                sortType : {"text", "numeric", "date"},
                                caseSensitive : BOOLEAN, keepHeaderRow : BOOLEAN] :
                            /\ o.sortType = "date" => o.columnIndex >= 1
                            /\ o.sortType # "text" => ~o.caseSensitive } : SortTable(options)

SpecSort == InitRows /\ [][NextSort]_vars

-----------------------------------------------------------------------------
(* Transpose *)

\* a slip: the new rows start at the first column, so it is there twice
TransposedDataRowsFromFirst(headerRow, dataRows) ==
    [col \in 1..Len(headerRow) |->
        <<At(headerRow, col - 1)>> \o [k \in 1..Len(dataRows) |-> ElemOr(dataRows[k], col - 1, <<>>)]]

\* newDataRows of transposeTable: one row per column from the second on
TransposedDataRows(headerRow, dataRows) ==
    [col \in 1..Len(headerRow) - 1 |->
        <<At(headerRow, col)>> \o [k \in 1..Len(dataRows) |-> ElemOr(dataRows[k], col, <<>>)]]

transposeTable(t) ==
    LET headerRow     == At(t.rows, 0)
        dataRows      == DataRows(t, 0)
        newHeader     == <<At(headerRow, 0)>> \o [k \in 1..Len(dataRows) |-> At(dataRows[k], 0)]
        newDataRows   == TransposedDataRows(headerRow, dataRows)
        newSeparator  == [k \in 1..Len(newHeader) |-> <<"-", "-", "-">>]
        newRows       == <<newHeader, newSeparator>> \o newDataRows
        newAlignments == [k \in 1..Len(newHeader) |-> "none"]
    IN  [startLine |-> t.startLine,
         endLine |-> t.startLine + Len(newRows) - 1,
         rows |-> newRows,
         separatorIndex |-> 1,
         alignments |-> newAlignments]

-----------------------------------------------------------------------------
(* Transposing every small table *)

TransposeTable ==
    /\ pc = "located"
    /\ result' = transposeTable(table)
    /\ op' = [name |-> "transposeTable", table |-> table]
    /\ pc' = "done"
    /\ UNCHANGED <<lines, ignoreCodeBlocks, tables, table>>

\* the transposed table is transposed again
TransposeBack ==
    /\ pc = "done"
    /\ result' = transposeTable(result)
    /\ op' = [name |-> "transposeTable", table |-> result]
    /\ pc' = "back"
    /\ UNCHANGED <<lines, ignoreCodeBlocks, tables, table>>

\* the lines of a document: rows of one, two and three cells, an empty
\* cell, marked and unmarked separators
NextTranspose ==
    \/ \E l \in { <<"|", "a", "|", "b", "|">>,
                   <<"|", "c", "|", "|">>,
                   <<"|", "d", "|", "e", "|", "f", "|">>,
                   <<"|", "g", "|">>,
                   <<"|", "-", "|">>,
                   <<"|", ":", "-", "|", "-", ":", "|">> } : TypeTableRow(l)
    \/ \E lineNumber \in 0..Len(lines) - 1 : LocateTable(lineNumber)
    \/ TransposeTable
    \/ TransposeBack

SpecTranspose == InitRows /\ [][NextTranspose]_vars

-----------------------------------------------------------------------------
(* CSV conversion *)

\* the double quote and the line feed as characters of a text
Quote == "dq"

Newline == "nl"

Tab == "tab"

\* how often character c occurs in text: (text.match(/c/g) || []).length
CountChar(text, c) == Cardinality({k \in 1..Len(text) : text[k] = c})

\* String.prototype.includes
Includes(s, sub) ==
    \E k \in 0..Len(s) - Len(sub) : SubSeq(s, k + 1, k + Len(sub)) = sub

\* Array.prototype.join with a separator of any length
RECURSIVE JoinWith(_, _)
JoinWith(parts, sep) ==
    IF parts = <<>> THEN <<>>
    ELSE IF Len(parts) = 1 THEN parts[1]
    ELSE parts[1] \o sep \o JoinWith(Tail(parts), sep)

\* text.split(/\r?\n/) on text without carriage returns
RECURSIVE SplitLinesAcc(_, _)
SplitLinesAcc(text, current) ==
    IF text = <<>> THEN <<current>>
    ELSE IF Head(text) = Newline THEN <<current>> \o SplitLinesAcc(Tail(text), <<>>)
    ELSE SplitLinesAcc(Tail(text), Append(current, Head(text)))

\* a slip: a doubled double quote is unescaped outside quotes as well
RECURSIVE CsvLineScanEscapingAnywhere(_, _, _, _, _, _)
CsvLineScanEscapingAnywhere(line, delimiter, i, current, inQuotes, cells) ==
    IF i >= Len(line) THEN Append(cells, current)
    ELSE LET char == At(line, i)
         IN  IF char = Quote THEN
                 IF i + 1 < Len(line) /\ At(line, i + 1) = Quote
                 THEN CsvLineScanEscapingAnywhere(line, delimiter, i + 2,
                                                  Append(current, Quote), inQuotes, cells)
                 ELSE CsvLineScanEscapingAnywhere(line, delimiter, i + 1, current,
                                                  ~inQuotes, cells)
             ELSE IF char = delimiter /\ ~inQuotes
                 THEN CsvLineScanEscapingAnywhere(line, delimiter, i + 1, <<>>, inQuotes,
                                                  Append(cells, current))
             ELSE CsvLineScanEscapingAnywhere(line, delimiter, i + 1, Append(current, char),
                                              inQuotes, cells)

\* the loop of parseCsvLine from position i on
RECURSIVE CsvLineScan(_, _, _, _, _, _)
CsvLineScan(line, delimiter, i, current, inQuotes, cells) ==
    IF i >= Len(line) THEN Append(cells, current)
    ELSE LET char == At(line, i)
         IN  IF char = Quote THEN
                 IF inQuotes /\ i + 1 < Len(line) /\ At(line, i + 1) = Quote
                 THEN CsvLineScan(line, delimiter, i + 2, Append(current, Quote), inQuotes, cells)
                 ELSE CsvLineScan(line, delimiter, i + 1, current, ~inQuotes, cells)
             ELSE IF char = delimiter /\ ~inQuotes
                 THEN CsvLineScan(line, delimiter, i + 1, <<>>, inQuotes, Append(cells, current))
             ELSE CsvLineScan(line, delimiter, i + 1, Append(current, char), inQuotes, cells)

parseCsvLine(line, delimiter) == CsvLineScan(line, delimiter, 0, <<>>, FALSE, <<>>)

parseCsv(text, options) ==
    LET \* the auto-detection picks the most frequent of tab, semicolon and comma
        commaCount     == CountChar(text, ",")
        semicolonCount == CountChar(text, ";")
        tabCount       == CountChar(text, Tab)
        delimiter == IF options.delimiter = <<"a", "u", "t", "o">>
                     THEN IF tabCount > commaCount /\ tabCount > semicolonCount THEN Tab
                          ELSE IF semicolonCount > commaCount THEN ";"
                          ELSE ","
                     ELSE options.delimiter[1]
        csvLines  == SelectSeq(SplitLinesAcc(text, <<>>), LAMBDA line : Trim(line) # <<>>)
        trimmed(cells) == IF options.trimCells
                          THEN [k \in 1..Len(cells) |-> Trim(cells[k])]
                          ELSE cells
        parsed    == [k \in 1..Len(csvLines) |->
                         trimmed(parseCsvLine(csvLines[k], delimiter))]
        rows      == IF options.hasHeader /\ Len(parsed) > 0
                     THEN Splice(parsed, 1, 0,
                                 << [k \in 1..Len(parsed[1]) |-> <<"-", "-", "-">>] >>)
                     ELSE parsed
    IN  [startLine |-> 0,
         endLine |-> Len(rows) - 1,
         rows |-> rows,
         separatorIndex |-> IF options.hasHeader THEN 1 ELSE -1,
         alignments |-> [k \in 1..(IF rows = <<>> THEN 0 ELSE Len(rows[1])) |-> "none"]]

\* cell.replace(/"/g, '""')
RECURSIVE DoubleQuotes(_)
DoubleQuotes(cell) ==
    IF cell = <<>> THEN <<>>
    ELSE (IF Head(cell) = Quote THEN <<Quote, Quote>> ELSE <<Head(cell)>>) \o DoubleQuotes(Tail(cell))

\* rowsToInclude of tableToCsv: the filter over the rows from index i on
RECURSIVE CsvRowsToInclude(_, _, _)
CsvRowsToInclude(t, options, i) ==
    IF i >= Len(t.rows) THEN <<>>
    ELSE (IF i # t.separatorIndex /\ (options.includeHeader \/ i # 0)
          THEN <<At(t.rows, i)>> ELSE <<>>)
         \o CsvRowsToInclude(t, options, i + 1)

tableToCsv(t, options) ==
    LET rowsToInclude == CsvRowsToInclude(t, options, 0)
        needsQuotes(cell) ==
            \/ options.quoteStrings = "always"
            \/ /\ options.quoteStrings = "auto"
               /\ \/ Includes(cell, options.delimiter)
                  \/ Includes(cell, <<Newline>>)
                  \/ Includes(cell, <<Quote>>)
        field(cell) ==
            IF needsQuotes(cell) THEN <<Quote>> \o DoubleQuotes(cell) \o <<Quote>> ELSE cell
    IN  JoinWith([r \in 1..Len(rowsToInclude) |->
                     JoinWith([c \in 1..Len(rowsToInclude[r]) |->
                                  field(rowsToInclude[r][c])],
                              options.delimiter)],
                 <<Newline>>)

\* compactTable on any table: without a row 0, headerRow.map raises
compactTableOutcome(t, options) ==
    IF t.rows = <<>> THEN Raised("TypeError") ELSE Lines(compactTable(t, options))

\* formatTable on any table: without rows, Math.max() is -Infinity and
\* new Array(-Infinity) raises
formatTableOutcome(t, options, compactOptions) ==
    IF t.rows = <<>> THEN Raised("RangeError") ELSE Lines(formatTable(t, options, compactOptions))

getDefaultCompactOptions ==
    [cellPadding |-> TRUE, separatorPadding |-> TRUE,
     alignSeparatorWithHeader |-> TRUE, keepSeparatorRatios |-> FALSE]

getDefaultFormatOptions ==
    [maxWidth |-> 0, cellPadding |-> TRUE, separatorPadding |-> TRUE,
     preserveAlignment |-> TRUE, keepSeparatorRatios |-> FALSE]

-----------------------------------------------------------------------------
(* The CSV codec under every short text *)

\* longest text of the CSV specification, in characters
MaxCsvLength == 4

\* the selected text: the lines joined by line feeds
CsvText == JoinWith(lines, <<Newline>>)

\* the user types one more character at the end of the last line
TypeCsvChar(c) ==
    /\ pc = "edit"
    /\ Len(CsvText) < MaxCsvLength
    /\ lines' = IF lines = <<>> THEN << <<c>> >>
                ELSE [lines EXCEPT ![Len(lines)] = Append(@, c)]
    /\ UNCHANGED <<ignoreCodeBlocks, tables, table, op, result, pc>>

\* the user ends the last line
TypeCsvNewline ==
    /\ pc = "edit"
    /\ Len(CsvText) < MaxCsvLength
    /\ lines' = IF lines = <<>> THEN << <<>>, <<>> >> ELSE Append(lines, <<>>)
    /\ UNCHANGED <<ignoreCodeBlocks, tables, table, op, result, pc>>

ParseCsv(options) ==
    /\ pc = "edit"
    /\ table' = parseCsv(CsvText, options)
    /\ result' = parseCsv(CsvText, options)
    /\ op' = [name |-> "parseCsv", options |-> options]
    /\ pc' = "parsed"
    /\ UNCHANGED <<lines, ignoreCodeBlocks, tables>>

TableToCsv ==
    /\ pc = "parsed"
    /\ result' = [text |-> tableToCsv(table, op.options)]
    /\ op' = [name |-> "tableToCsv", options |-> op.options]
    /\ pc' = "done"
    /\ UNCHANGED <<lines, ignoreCodeBlocks, tables, table>>

\* the parsed table is rendered as the CSV-to-table command renders it
FormatParsedTable ==
    /\ pc = "parsed"
    /\ result' = formatTableOutcome(table, getDefaultFormatOptions, getDefaultCompactOptions)
    /\ op' = [name |-> "formatTable", options |-> getDefaultFormatOptions,
              compactOptions |-> getDefaultCompactOptions]
    /\ pc' = "done"
    /\ UNCHANGED <<lines, ignoreCodeBlocks, tables, table>>

CompactParsedTable ==
    /\ pc = "parsed"
    /\ result' = compactTableOutcome(table, getDefaultCompactOptions)
    /\ op' = [name |-> "compactTable", options |-> getDefaultCompactOptions]
    /\ pc' = "done"
    /\ UNCHANGED <<lines, ignoreCodeBlocks, tables, table>>

NextCsv ==
    \/ \E c \in {"a", ",", " ", Quote} : TypeCsvChar(c)
    \/ TypeCsvNewline
    \/ \E options \in [delimiter : {<<",">>, <<"a", "u", "t", "o">>}, hasHeader : BOOLEAN,
                        trimCells : BOOLEAN, quoteStrings : {"auto", "always"},
                        includeHeader : BOOLEAN] :
           ParseCsv(options)
    \/ TableToCsv
    \/ FormatParsedTable
    \/ CompactParsedTable

SpecCsv == InitRows /\ [][NextCsv]_vars

-----------------------------------------------------------------------------
(* Row numbers *)

\* String(n) for an integer n >= 0: its decimal digits
RECURSIVE DecimalText(_)
DecimalText(n) ==
    IF n < 10 THEN <<Digits[n + 1]>>
    ELSE Append(DecimalText(n \div 10), Digits[(n % 10) + 1])

hasRowNumbers(t, headerText) ==
    LET knownHeaders ==
            { <<"#">>, <<"n", "o">>, <<"n", "o", ".">>, <<"n", "r">>, <<"n", "r", ".">>,
              <<"n", "u", "m">>, <<"r", "o", "w">>, toLowerCase(headerText) }
        \* /^\d+$/.test(cell)
        allDigits(cell) == cell # <<>> /\ \A k \in 1..Len(cell) : IsDigit(cell[k])
        \* row[0]?.trim(): a row without cells has none, which is no known
        \* header and no number
        hasCell(i) == At(t.rows, i) # <<>>
        firstCell(i) == At(At(t.rows, i), 0)
    IN  /\ hasCell(0)
        /\ Trim(toLowerCase(firstCell(0))) \in knownHeaders
        /\ \A i \in 2..Len(t.rows) - 1 : hasCell(i) /\ allDigits(Trim(firstCell(i)))

\* alignmentMarker of addRowNumbers
alignmentMarker(alignment) ==
    IF alignment = "right" THEN <<"-", "-", "-", ":">>
    ELSE IF alignment = "center" THEN <<":", "-", "-", "-", ":">>
    ELSE <<":", "-", "-", "-">>

\* row[0] = value, or row.unshift(value)
SetOrUnshift(row, value, hasNumbers) ==
    IF hasNumbers
    THEN (IF row = <<>> THEN <<value>> ELSE [row EXCEPT ![1] = value])
    ELSE <<value>> \o row

\* dataRowIndex of addRowNumbers when the loop reaches row i: the start
\* number plus the data rows before it
RECURSIVE DataRowIndex(_, _, _)
DataRowIndex(t, options, i) ==
    IF i <= 0 THEN options.startNumber
    ELSE DataRowIndex(t, options, i - 1)
         + (IF i - 1 = 0 \/ i - 1 = t.separatorIndex THEN 0 ELSE 1)

addRowNumbers(t, options) ==
    LET hasNumbers == hasRowNumbers(t, options.headerText)
        newRows ==
            [k \in 1..Len(t.rows) |->
                LET i == k - 1
                IN  IF i = 0 THEN SetOrUnshift(t.rows[k], options.headerText, hasNumbers)
                    ELSE IF i = t.separatorIndex
                    THEN SetOrUnshift(t.rows[k], alignmentMarker(options.alignment), hasNumbers)
                    ELSE SetOrUnshift(t.rows[k], DecimalText(DataRowIndex(t, options, i)),
                                      hasNumbers)]
        newAlignments == IF hasNumbers
                         THEN <<options.alignment>> \o Tail(t.alignments)
                         ELSE <<options.alignment>> \o t.alignments
    IN  [t EXCEPT !.rows = newRows, !.alignments = newAlignments]

\* row.slice(1) and alignments.slice(1)
removeRowNumbers(t) ==
    IF ~hasRowNumbers(t, <<"#">>) THEN Absent
    ELSE [t EXCEPT !.rows = [r \in 1..Len(t.rows) |-> SubSeq(t.rows[r], 2, Len(t.rows[r]))],
                   !.alignments = SubSeq(t.alignments, 2, Len(t.alignments))]

-----------------------------------------------------------------------------
(* Numbering the rows of every small table *)

AddRowNumbers(options) ==
    /\ pc = "located"
    /\ result' = addRowNumbers(table, options)
    /\ op' = [name |-> "addRowNumbers", options |-> options]
    /\ pc' = "done"
    /\ UNCHANGED <<lines, ignoreCodeBlocks, tables, table>>

\* the host calls removeRowNumbers on the numbered table
RemoveRowNumbers ==
    /\ pc = "done"
    /\ result' = removeRowNumbers(result)
    /\ op' = [name |-> "removeRowNumbers", options |-> op.options]
    /\ pc' = "removed"
    /\ UNCHANGED <<lines, ignoreCodeBlocks, tables, table>>

\* the lines of a document: known and unknown headers, numbered and
\* unnumbered rows, a short row
NextNumbers ==
    \/ \E l \in { <<"|", "N", "o", "|", "a", "|">>,
                   <<"|", "-", "|", "-", ":", "|">>,
                   <<"|", "7", "|", "b", "|">>,
                   <<"|", "x", "|", "1", "|">>,
                   <<"|", "1", "2", "|">>,
                   <<"|", "R", "|", "y", "|">> } : TypeTableRow(l)
    \/ \E lineNumber \in 0..Len(lines) - 1 : LocateTable(lineNumber)
    \/ \E options \in [startNumber : {0, 1, 9}, headerText : {<<"#">>, <<"R">>},
                        alignment : {"left", "center", "right", "none"}] :
           AddRowNumbers(options)
    \/ RemoveRowNumbers

SpecNumbers == InitRows /\ [][NextNumbers]_vars

-----------------------------------------------------------------------------
(* padCell under every short content *)

\* longest content handed to padCell
MaxContentLength == 3

\* widest width handed to padCell
MaxPadWidth == 5

ColumnAlignments == {"left", "center", "right", "none"}

PadCell(content, width, alignment) ==
    /\ pc = "edit"
    /\ result' = [text |-> padCell(content, width, alignment)]
    /\ op' = [name |-> "padCell", content |-> content, width |-> width, alignment |-> alignment]
    /\ pc' = "done"
    /\ UNCHANGED <<lines, ignoreCodeBlocks, tables, table>>

\* the contents: every text of a letter and spaces up to the longest
NextPad ==
    \E content \in UNION { [1..n -> {"a", " "}] : n \in 0..MaxContentLength },
       width \in 0..MaxPadWidth, alignment \in ColumnAlignments :
        PadCell(content, width, alignment)

SpecPad == InitRows /\ [][NextPad]_vars

-----------------------------------------------------------------------------
(* Arguments and return values as objects *)

\* the cells array handed to insertRow as it stands after the call: newCells
\* is that same array, and the while loop pushes onto it
insertRowCellsAfter(t, rowIndex, cells) ==
    IF cells = Absent THEN Absent ELSE Some(PadCells(cells.some, Len(t.rows[1])))

insertColumn(t, columnIndex, headerText, defaultValue, alignment) ==
    LET marker == IF alignment = "right" THEN <<"-", "-", "-", ":">>
                  ELSE IF alignment = "center" THEN <<":", "-", "-", "-", ":">>
                  ELSE <<":", "-", "-", "-">>
    IN  [t EXCEPT !.rows = [r \in 1..Len(t.rows) |->
                              Splice(t.rows[r], columnIndex, 0,
                                     << IF r - 1 = 0 THEN headerText
                                        ELSE IF r - 1 = t.separatorIndex THEN marker
                                        ELSE defaultValue >>)],
                  !.alignments = Splice(t.alignments, columnIndex, 0, <<alignment>>)]

removeColumn(t, columnIndex) ==
    [t EXCEPT !.rows = [r \in 1..Len(t.rows) |-> Splice(t.rows[r], columnIndex, 1, <<>>)],
              !.alignments = Splice(t.alignments, columnIndex, 1, <<>>)]

\* for a column index inside the separator row and alignments
setColumnAlignment(t, columnIndex, alignment) ==
    LET marker == IF alignment = "right" THEN <<"-", "-", "-", ":">>
                  ELSE IF alignment = "center" THEN <<":", "-", "-", "-", ":">>
                  ELSE IF alignment = "left" THEN <<":", "-", "-", "-">>
                  ELSE <<"-", "-", "-">>
    IN  [t EXCEPT !.rows = [r \in 1..Len(t.rows) |->
                              IF r - 1 # t.separatorIndex THEN t.rows[r]
                              ELSE [t.rows[r] EXCEPT ![columnIndex + 1] = marker]],
                  !.alignments = [t.alignments EXCEPT ![columnIndex + 1] = alignment]]

\* the early return of moveColumn: the target is outside the header row
moveColumnOutOfRange(t, columnIndex, direction) ==
    LET targetIndex == IF direction = "left" THEN columnIndex - 1 ELSE columnIndex + 1
    IN  targetIndex < 0 \/ targetIndex >= Len(t.rows[1])

moveColumn(t, columnIndex, direction) ==
    LET targetIndex == IF direction = "left" THEN columnIndex - 1 ELSE columnIndex + 1
    IN  IF moveColumnOutOfRange(t, columnIndex, direction) THEN t
        ELSE [t EXCEPT !.rows = [r \in 1..Len(t.rows) |->
                                    SwapAt(t.rows[r], columnIndex, targetIndex)],
                       !.alignments = SwapAt(t.alignments, columnIndex, targetIndex)]

-----------------------------------------------------------------------------
(* Calls with their arguments before and after *)

\* insertRow is called; op keeps the arguments as they were handed in and
\* as they are when the call returns, and whether the table returned is a
\* new object
CallInsertRow(rowIndex, cells) ==
    /\ pc = "located"
    /\ rowIndex <= Len(table.rows)
    /\ result' = insertRow(table, rowIndex, cells)
    /\ op' = [name |-> "insertRow",
              before |-> [table |-> table, rowIndex |-> rowIndex, cells |-> cells],
              after |-> [table |-> table, rowIndex |-> rowIndex,
                         cells |-> insertRowCellsAfter(table, rowIndex, cells)],
              returnsArgument |-> FALSE]
    /\ pc' = "done"
    /\ UNCHANGED <<lines, ignoreCodeBlocks, tables, table>>

CallMoveColumn(columnIndex, direction) ==
    /\ pc = "located"
    /\ columnIndex < Len(table.rows[1])
    /\ result' = moveColumn(table, columnIndex, direction)
    /\ op' = [name |-> "moveColumn",
              before |-> [table |-> table, columnIndex |-> columnIndex, direction |-> direction],
              after |-> [table |-> table, columnIndex |-> columnIndex, direction |-> direction],
              returnsArgument |-> moveColumnOutOfRange(table, columnIndex, direction)]
    /\ pc' = "done"
    /\ UNCHANGED <<lines, ignoreCodeBlocks, tables, table>>

NextCalls ==
    \/ \E l \in TableRowPool : TypeTableRow(l)
    \/ \E lineNumber \in 0..Len(lines) - 1 : LocateTable(lineNumber)
    \/ \E rowIndex \in 0..MaxTableRows, cells \in CellsPool : CallInsertRow(rowIndex, cells)
    \/ \E columnIndex \in 0..1, direction \in {"left", "right"} :
          CallMoveColumn(columnIndex, direction)

SpecCalls == InitRows /\ [][NextCalls]_vars

-----------------------------------------------------------------------------
(* Chains of edits on one table *)

\* longest chain of edits
MaxEdits == 3

\* the host applies one more mutator to the table it holds: e names the
\* mutator, its row or column index and its direction or alignment.  A table
\* that is returned replaces the table; the rejection value and an exception
\* leave it as it is.  op keeps the table before the call, the number of
\* edits and the mutators used so far.
Edit(e) ==
    /\ pc = "located"
    /\ LET edits   == IF "edits" \in DOMAIN op THEN op.edits ELSE 0
           used    == IF "used" \in DOMAIN op THEN op.used ELSE {}
           rows    == Len(table.rows)
           columns == Len(table.rows[1])
           inRange ==
               CASE e.name \in {"insertRow", "duplicateRow"} -> e.index <= rows
                 [] e.name \in {"removeRow", "moveRow"} -> e.index < rows
                 [] e.name = "insertColumn" -> e.index <= columns
                 [] e.name \in {"removeColumn", "moveColumn", "setColumnAlignment"} ->
                        e.index < columns
                 [] e.name = "transposeTable" -> columns > 0
                 [] OTHER -> TRUE
           outcome ==
               CASE e.name = "insertRow" -> insertRow(table, e.index, Absent)
                 [] e.name = "removeRow" -> removeRow(table, e.index)
                 [] e.name = "moveRow" -> moveRow(table, e.index, e.how)
                 [] e.name = "duplicateRow" -> duplicateRow(table, e.index)
                 [] e.name = "sortTable" ->
                        sortTable(table, [columnIndex |-> e.index, direction |-> e.how,
                                          sortType |-> "text", caseSensitive |-> FALSE,
                                          keepHeaderRow |-> TRUE])
                 [] e.name = "addRowNumbers" ->
                        addRowNumbers(table, [startNumber |-> 1, headerText |-> <<"#">>,
                                              alignment |-> e.how])
                 [] e.name = "removeRowNumbers" -> removeRowNumbers(table)
                 [] e.name = "transposeTable" -> transposeTable(table)
                 [] e.name = "insertColumn" -> insertColumn(table, e.index, <<"h">>, <<>>, e.how)
                 [] e.name = "removeColumn" -> removeColumn(table, e.index)
                 [] e.name = "moveColumn" -> moveColumn(table, e.index, e.how)
                 [] e.name = "setColumnAlignment" -> setColumnAlignment(table, e.index, e.how)
       IN  /\ edits < MaxEdits
           /\ inRange
           /\ result' = outcome
           /\ table' = IF "rows" \in DOMAIN outcome THEN outcome ELSE table
           /\ op' = [name |-> e.name, index |-> e.index, how |-> e.how, before |-> table,
                     edits |-> edits + 1,
                     used |-> used \cup {IF e.name = "insertRow" /\ e.index < 2
                                         THEN "insertRowAboveData" ELSE e.name}]
    /\ UNCHANGED <<lines, ignoreCodeBlocks, tables, pc>>

\* the lines of a document have two cells each: a known header of a number
\* column, a separator, a numbered row
NextEdits ==
    \/ \E l \in { <<"|", "N", "o", "|", "b", "|">>,
                   <<"|", "-", "|", ":", "-", ":", "|">>,
                   <<"|", "2", "|", "a", "|">> } : TypeTableRow(l)
    \/ \E lineNumber \in 0..Len(lines) - 1 : LocateTable(lineNumber)
    \/ \E i \in 0..MaxTableRows + MaxEdits :
          Edit([name |-> "insertRow", index |-> i, how |-> "none"])
    \/ \E i \in 0..MaxTableRows + MaxEdits :
          Edit([name |-> "removeRow", index |-> i, how |-> "none"])
    \/ \E i \in 0..MaxTableRows + MaxEdits, direction \in {"up", "down"} :
          Edit([name |-> "moveRow", index |-> i, how |-> direction])
    \/ \E i \in 0..MaxTableRows + MaxEdits :
          Edit([name |-> "duplicateRow", index |-> i, how |-> "none"])
    \/ \E direction \in {"ascending", "descending"} :
          Edit([name |-> "sortTable", index |-> 0, how |-> direction])
    \/ \E alignment \in {"right", "none"} :
          Edit([name |-> "addRowNumbers", index |-> 0, how |-> alignment])
    \/ Edit([name |-> "removeRowNumbers", index |-> 0, how |-> "none"])
    \/ Edit([name |-> "transposeTable", index |-> 0, how |-> "none"])
    \/ \E k \in 0..MaxTableRows + MaxEdits, alignment \in {"left", "none"} :
          Edit([name |-> "insertColumn", index |-> k, how |-> alignment])
    \/ \E k \in 0..MaxTableRows + MaxEdits :
          Edit([name |-> "removeColumn", index |-> k, how |-> "none"])
    \/ \E k \in 0..MaxTableRows + MaxEdits, direction \in {"left", "right"} :
          Edit([name |-> "moveColumn", index |-> k, how |-> direction])
    \/ \E k \in 0..MaxTableRows + MaxEdits, alignment \in {"center", "none"} :
          Edit([name |-> "setColumnAlignment", index |-> k, how |-> alignment])

SpecEdits == InitRows /\ [][NextEdits]_vars

-----------------------------------------------------------------------------
(* Claims about the locator, checked under SpecLocate *)

Located == pc # "edit"

LineAt(i) == At(lines, i)

\* the colon markers of a separator cell of the wire grammar, read directly:
\* :--- left, ---: right, :---: center, --- none
MarkerAlignment(cell) ==
    LET t == Trim(cell)
        l == t # <<>> /\ t[1] = ":"
        r == t # <<>> /\ t[Len(t)] = ":"
    IN  CASE l /\ r   -> "center"
          [] l /\ ~r  -> "left"
          [] ~l /\ r  -> "right"
          [] OTHER    -> "none"

\* C1: every table returned by findTables has separatorIndex = 1, at least two
\* rows, as many rows as lines in [startLine, endLine], only table rows in that
\* span, a line at startLine + 1 that satisfies the separator grammar, and
\* alignments[i] equal to the alignment that separator cell i spells.
C1_LocatedTablesWellFormed ==
    Located =>
        \A k \in 1..Len(tables) :
            LET t == tables[k]
                sepCells == Split(SliceInner(Trim(LineAt(t.startLine + 1))), "|")
            IN  /\ t.separatorIndex = 1
                /\ Len(t.rows) >= 2
                /\ 0 <= t.startLine /\ t.endLine < Len(lines)
                /\ Len(t.rows) = t.endLine - t.startLine + 1
                /\ \A i \in t.startLine..t.endLine : isTableRow(LineAt(i))
                /\ isTableSeparator(LineAt(t.startLine + 1))
                /\ Len(t.alignments) = Len(sepCells)
                /\ \A c \in 1..Len(sepCells) : t.alignments[c] = MarkerAlignment(sepCells[c])

\* a table of three rows was returned
C1_Witness ==
    Located /\ \E k \in 1..Len(tables) : Len(tables[k].rows) >= 3

\* C2: findTables returns its tables in strictly ascending startLine order with
\* pairwise disjoint spans, and returns the empty sequence for a document
\* without any table row (a line that, trimmed, starts and ends with a pipe).
C2_AscendingDisjoint ==
    Located =>
        /\ \A k \in 1..Len(tables) : tables[k].startLine <= tables[k].endLine
        /\ \A j, k \in 1..Len(tables) : j < k => tables[j].endLine < tables[k].startLine
        /\ (\A i \in 0..Len(lines) - 1 : ~isTableRow(LineAt(i))) => tables = <<>>

\* two tables were returned from one document
C2_Witness == Located /\ Len(tables) >= 2

\* C3: findTableAtPosition(lines, n, flag) returns the unique table of
\* findTables(lines, flag) whose span contains n, and the absent value exactly
\* when there is none (n on a non-table line or outside the document).
C3_TableAtPosition ==
    (pc = "done" /\ op.name = "findTableAtPosition") =>
        LET n == op.lineNumber
            hits == { k \in 1..Len(tables) :
                        tables[k].startLine <= n /\ n <= tables[k].endLine }
        IN  /\ Cardinality(hits) <= 1
            /\ (result = Absent) <=> (hits = {})
            /\ \A k \in hits : result = tables[k]
            /\ (n < 0 \/ n >= Len(lines)) => result = Absent

\* the cursor stood on the last line of the second table, which was returned
C3_Witness ==
    /\ pc = "done" /\ op.name = "findTableAtPosition"
    /\ Len(tables) >= 2
    /\ result = tables[2]
    /\ op.lineNumber = tables[2].endLine

\* a line whose trimmed text begins with three backticks or three tildes
IsFenceOpener(line) ==
    LET t == Trim(line)
    IN  /\ Len(t) >= 3
        /\ \/ \A k \in 1..3 : t[k] = Backtick
           \/ \A k \in 1..3 : t[k] = Tilde

\* a line that closes the fence opened by `opener`: it uses the opener's fence
\* character and nothing is left once the fence characters are stripped
IsFenceCloser(opener, line) ==
    LET t == Trim(line)
        o == Trim(opener)
    IN  /\ Len(t) >= 3
        /\ \A k \in 1..3 : t[k] = o[1]
        /\ \A k \in 1..Len(t) : t[k] \in {Backtick, Tilde, " "}

\* the opening fence line of the fenced range that holds line i, or -1 when
\* line i lies in no fenced range; an unclosed fence runs to the last line
RECURSIVE FenceOwner(_)
FenceOwner(i) ==
    LET prev == IF i = 0 THEN -1 ELSE FenceOwner(i - 1)
        open == prev # -1 /\ ~(i - 1 > prev /\ IsFenceCloser(LineAt(prev), LineAt(i - 1)))
    IN  IF open THEN prev
        ELSE IF IsFenceOpener(LineAt(i)) THEN i
        ELSE -1

\* lines a..b are a maximal run of table rows
MaximalRun(a, b) ==
    /\ \A i \in a..b : isTableRow(LineAt(i))
    /\ a = 0 \/ ~isTableRow(LineAt(a - 1))
    /\ b = Len(lines) - 1 \/ ~isTableRow(LineAt(b + 1))

\* C4: with ignoreCodeBlocks = true no returned table holds a line of a fenced
\* range (opening fence of three or more backticks or tildes through its
\* closing fence, or through the last line when never closed), and every run
\* of table rows outside all fenced ranges that forms a table is returned.
C4_CodeBlocksIgnored ==
    (Located /\ ignoreCodeBlocks) =>
        /\ \A k \in 1..Len(tables) :
              \A i \in tables[k].startLine..tables[k].endLine : FenceOwner(i) = -1
        /\ \A a, b \in 0..Len(lines) - 1 :
              ( /\ a < b
                /\ MaximalRun(a, b)
                /\ \A i \in a..b : FenceOwner(i) = -1
                /\ ~isTableSeparator(LineAt(a))
                /\ isTableSeparator(LineAt(a + 1)) )
              => \E k \in 1..Len(tables) :
                    tables[k].startLine = a /\ tables[k].endLine = b

\* a table outside the fence was returned while a header and separator that
\* stand inside a fenced range were passed over
C4_Witness ==
    /\ Located /\ ignoreCodeBlocks
    /\ Len(tables) = 1
    /\ \E i \in 0..Len(lines) - 2 :
          /\ FenceOwner(i) # -1
          /\ isTableRow(LineAt(i)) /\ ~isTableSeparator(LineAt(i))
          /\ isTableSeparator(LineAt(i + 1))

-----------------------------------------------------------------------------
(* Claims about the formatters, checked under SpecFormat *)

Compacted == pc \in {"done", "relocated"} /\ op.name = "compactTable"

Formatted == pc = "done" /\ op.name = "formatTable"

IsSeparatorRow(r) == (r - 1) = table.separatorIndex

\* the text between the pipes of an output line, piece by piece
Pieces(line) == Split(SliceInner(line), "|")

\* an output line is bounded by pipes
Bounded(line) == Len(line) >= 2 /\ line[1] = "|" /\ line[Len(line)] = "|"

\* C5 as stated: re-locating the compacted lines yields exactly one table that
\* covers them all, and every cell of every row, the separator row included,
\* has the text of the cell at the same position of the source table.
C5_Original ==
    pc = "relocated" =>
        /\ Len(tables) = 1
        /\ tables[1].startLine = 0 /\ tables[1].endLine = Len(result.lines) - 1
        /\ tables[1].rows = table.rows

\* C5, amended: re-locating the compacted lines yields exactly one table that
\* covers them all; every cell of every header and data row has the text of
\* the cell at the same position of the source table, and the separator row
\* keeps its number of cells and its alignments while its dashes are rewritten.
C5_CompactRoundTrip ==
    pc = "relocated" =>
        /\ Len(tables) = 1
        /\ tables[1].startLine = 0 /\ tables[1].endLine = Len(result.lines) - 1
        /\ Len(tables[1].rows) = Len(table.rows)
        /\ tables[1].separatorIndex = table.separatorIndex
        /\ \A r \in 1..Len(table.rows) :
              IF IsSeparatorRow(r)
              THEN /\ Len(tables[1].rows[r]) = Len(table.rows[r])
                   /\ \A k \in 1..Len(table.rows[r]) :
                         MarkerAlignment(tables[1].rows[r][k]) = MarkerAlignment(table.rows[r][k])
              ELSE tables[1].rows[r] = table.rows[r]
        /\ tables[1].alignments = table.alignments

\* a padded three-row table was compacted and found again, its separator
\* dashes rewritten
C5_Witness ==
    /\ pc = "relocated"
    /\ op.options.cellPadding
    /\ Len(table.rows) = 3
    /\ Len(tables) = 1
    /\ tables[1].rows[2] # table.rows[2]
    /\ \E k \in 1..Len(table.rows[3]) : Len(table.rows[3][k]) > 3

\* a separator marker of the given total length: dashes, with a leading colon
\* exactly for left and center and a trailing colon exactly for right and center
IsMarker(m, length, alignment) ==
    /\ Len(m) = length
    /\ \A k \in 1..Len(m) :
          m[k] = IF \/ k = 1 /\ alignment \in {"left", "center"}
                    \/ k = Len(m) /\ alignment \in {"right", "center"}
                 THEN ":" ELSE "-"

\* the claimed rendering of a header or data row by the compact formatter
CompactRowAsClaimed(line, row, options) ==
    /\ Bounded(line)
    /\ Len(Pieces(line)) = Len(row)
    /\ \A k \in 1..Len(row) :
          Pieces(line)[k] = IF options.cellPadding THEN <<" ">> \o row[k] \o <<" ">> ELSE row[k]

\* the claimed rendering of the separator row by the compact formatter
CompactSeparatorAsClaimed(line, row, options) ==
    /\ Bounded(line)
    /\ Len(Pieces(line)) = Len(row)
    /\ \A k \in 1..Len(row) :
          LET w == IF options.alignSeparatorWithHeader
                   THEN Len(ElemOr(table.rows[1], k - 1, <<>>)) ELSE 3
              piece == Pieces(line)[k]
              padded == options.cellPadding /\ options.separatorPadding
          IN  IF padded
              THEN /\ Len(piece) >= 2 /\ piece[1] = " " /\ piece[Len(piece)] = " "
                   /\ IsMarker(SliceInner(piece), Max(3, w), table.alignments[k])
              ELSE IsMarker(piece, Max(3, w), table.alignments[k])

\* C6 as stated: every non-separator row is its cells, each between single
\* spaces iff cellPadding, joined and bounded by pipes; every separator cell
\* is a marker of length max(3, w), w the header cell's length under
\* alignSeparatorWithHeader and 3 otherwise, with the colons of the column's
\* alignment, between single spaces iff cellPadding and separatorPadding.
C6_Original ==
    Compacted =>
        \A r \in 1..Len(table.rows) :
            IF IsSeparatorRow(r)
            THEN CompactSeparatorAsClaimed(result.lines[r], table.rows[r], op.options)
            ELSE CompactRowAsClaimed(result.lines[r], table.rows[r], op.options)

\* C6, amended: the rendering of the non-separator rows holds for every
\* option value; the rendering of the separator cells holds whenever
\* keepSeparatorRatios is not set.
C6_CompactRendering ==
    Compacted =>
        \A r \in 1..Len(table.rows) :
            IF IsSeparatorRow(r)
            THEN ~op.options.keepSeparatorRatios =>
                    CompactSeparatorAsClaimed(result.lines[r], table.rows[r], op.options)
            ELSE CompactRowAsClaimed(result.lines[r], table.rows[r], op.options)

\* a table with a long header cell was compacted with padded, header-aligned
\* separators
C6_Witness ==
    /\ Compacted
    /\ ~op.options.keepSeparatorRatios
    /\ op.options.cellPadding /\ op.options.separatorPadding
    /\ op.options.alignSeparatorWithHeader
    /\ \E k \in 1..Len(table.rows[1]) : Len(table.rows[1][k]) > 3
    /\ "right" \in { table.alignments[k] : k \in 1..Len(table.alignments) }

\* the width the claim gives column k of a formatted table: the longest cell
\* of the column over the header and data rows, at least 3
ClaimedColumnWidth(k) ==
    LET lens == { Len(table.rows[r][k]) :
                    r \in { q \in 1..Len(table.rows) :
                               ~IsSeparatorRow(q) /\ k <= Len(table.rows[q]) } }
    IN  CHOOSE w \in lens \cup {3} : \A x \in lens \cup {3} : w >= x

\* every row of the table has the same number of cells
Rectangular == \A r \in 1..Len(table.rows) : Len(table.rows[r]) = Len(table.rows[1])

\* C7 as stated: with maxWidth = 0 and keepSeparatorRatios off, column i has
\* the same width in every row, header, data and separator alike: the
\* table-wide maximum content length (minimum 3) plus the cell padding; so all
\* lines of a rectangular table have equal length.
C7_Original ==
    (Formatted /\ op.options.maxWidth = 0 /\ ~op.options.keepSeparatorRatios) =>
        /\ \A r \in 1..Len(table.rows) :
              /\ Bounded(result.lines[r])
              /\ Len(Pieces(result.lines[r])) = Len(table.rows[r])
              /\ \A k \in 1..Len(table.rows[r]) :
                    Len(Pieces(result.lines[r])[k])
                        = ClaimedColumnWidth(k) + (IF op.options.cellPadding THEN 2 ELSE 0)
        /\ Rectangular =>
              \A r \in 1..Len(table.rows) : Len(result.lines[r]) = Len(result.lines[1])

\* what the code does give under maxWidth = 0 and keepSeparatorRatios off:
\* header and data cells have the claimed width, and separator cells have it
\* too unless cellPadding is set without separatorPadding
C7_AlignedButSeparatorPadding ==
    (Formatted /\ op.options.maxWidth = 0 /\ ~op.options.keepSeparatorRatios) =>
        \A r \in 1..Len(table.rows) :
            /\ Bounded(result.lines[r])
            /\ Len(Pieces(result.lines[r])) = Len(table.rows[r])
            /\ \A k \in 1..Len(table.rows[r]) :
                  Len(Pieces(result.lines[r])[k])
                      = ClaimedColumnWidth(k)
                        + (IF /\ op.options.cellPadding
                              /\ IsSeparatorRow(r) => op.options.separatorPadding
                           THEN 2 ELSE 0)

\* C8: formatTable never truncates or drops content: the output has one line
\* per input row, and parseTableRow applied to each non-separator output line
\* gives back that row's cells, same number, order and text, for every
\* option value and every maxWidth >= 0.
C8_FormatKeepsContent ==
    Formatted =>
        /\ Len(result.lines) = Len(table.rows)
        /\ \A r \in 1..Len(table.rows) :
              ~IsSeparatorRow(r) => parseTableRow(result.lines[r]) = table.rows[r]

\* a row whose break-column cell does not fit was rendered longer than maxWidth
C8_Witness ==
    /\ Formatted
    /\ op.options.maxWidth > 0
    /\ \E r \in 1..Len(table.rows) :
          /\ ~IsSeparatorRow(r)
          /\ Len(result.lines[r]) > op.options.maxWidth
          /\ \E k \in 1..Len(table.rows[r]) : Len(table.rows[r][k]) > op.options.maxWidth

\* the break column of the formatted table and the width available to it
FormattedBreak == BreakColumn(ContentWidths(table), op.options)

FormattedAvailable == AvailableWidth(op.options, FormattedBreak.accumulatedBeforeBreak)

\* the row has no cell in the break column longer than the width available
RowFits(r) ==
    FormattedBreak.breakColumnIndex < Len(table.rows[r]) =>
        Len(At(table.rows[r], FormattedBreak.breakColumnIndex)) <= FormattedAvailable

\* C9 as stated: for maxWidth > 0 the separator line, and every header or
\* data line whose row has no break-column cell longer than the width
\* available to that column, is at most maxWidth long.
C9_Original ==
    (Formatted /\ op.options.maxWidth > 0) =>
        \A r \in 1..Len(table.rows) :
            (IsSeparatorRow(r) \/ RowFits(r)) => Len(result.lines[r]) <= op.options.maxWidth

-----------------------------------------------------------------------------
(* Claims about the row mutators, checked under SpecRows *)

RowOps == {"insertRow", "removeRow", "moveRow", "duplicateRow"}

\* a row mutator was called on the header row or on the separator row
EditedProtectedRow ==
    /\ pc = "done"
    /\ op.name \in RowOps
    /\ op.rowIndex \in {0, table.separatorIndex}

\* the cells insertRow is to insert, filled up to the header's column count
ClaimedNewRow ==
    LET given == IF op.cells = Absent THEN <<>> ELSE op.cells.some
    IN  [k \in 1..Max(Len(given), Len(table.rows[1])) |->
            IF k <= Len(given) THEN given[k] ELSE <<>>]

\* C10 as stated: insertRow, removeRow, moveRow and duplicateRow each return
\* the rejection sentinel, and no table, whenever the row index is the
\* header row (0) or the separator row (separatorIndex).
C10_Original == EditedProtectedRow => result = Absent

\* C10, amended: on the header row (0) or the separator row, removeRow,
\* moveRow and duplicateRow return the rejection sentinel and no table;
\* insertRow returns a table in which the new row stands at that index, the
\* rows from there on are shifted down by one, and separatorIndex and endLine
\* are each one greater.  Every call returns a value.
C10_RowEditRejection ==
    EditedProtectedRow =>
        IF op.name = "insertRow"
        THEN /\ result # Absent
             /\ Len(result.rows) = Len(table.rows) + 1
             /\ At(result.rows, op.rowIndex) = ClaimedNewRow
             /\ \A i \in 0..Len(table.rows) - 1 :
                    At(result.rows, IF i < op.rowIndex THEN i ELSE i + 1) = At(table.rows, i)
             /\ result.separatorIndex = table.separatorIndex + 1
             /\ result.endLine = table.endLine + 1
             /\ result.startLine = table.startLine
        ELSE result = Absent

\* insertRow was called with cells on the separator row of a table that has
\* data rows, and returned a table
C10_Witness ==
    /\ EditedProtectedRow
    /\ op.name = "insertRow"
    /\ op.rowIndex = table.separatorIndex
    /\ op.cells # Absent
    /\ Len(table.rows) >= 3
    /\ result # Absent

-----------------------------------------------------------------------------
(* Claims about sorting, checked under SpecSort *)

Sorted == pc = "done" /\ op.name = "sortTable"

\* the data rows of a table that has its separator in row 1
DataRowsOf(t) == SubSeq(t.rows, 3, Len(t.rows))

\* how often row x occurs in rows
Occurrences(rows, x) == Cardinality({k \in 1..Len(rows) : rows[k] = x})

\* two sequences of rows hold the same rows equally often
SameMultiset(a, b) ==
    /\ Len(a) = Len(b)
    /\ \A k \in 1..Len(a) : Occurrences(a, a[k]) = Occurrences(b, a[k])

\* C11: sortTable returns a table whose row 0 is the input header row, whose
\* row 1 is the input separator row and whose remaining rows are a
\* permutation of the input data rows; the result is the same for
\* keepHeaderRow = true and keepHeaderRow = false, and nothing else of the
\* table changes.
C11_SortKeepsHeaderAndRows ==
    Sorted =>
        /\ At(result.rows, 0) = At(table.rows, 0)
        /\ At(result.rows, 1) = At(table.rows, table.separatorIndex)
        /\ SameMultiset(DataRowsOf(result), DataRowsOf(table))
        /\ result = sortTable(table, [op.options EXCEPT !.keepHeaderRow = ~@])
        /\ [result EXCEPT !.rows = table.rows] = table

\* a table with two different data rows was sorted with keepHeaderRow off
\* and the data rows changed places
C11_Witness ==
    /\ Sorted
    /\ ~op.options.keepHeaderRow
    /\ Len(table.rows) >= 4
    /\ DataRowsOf(result) # DataRowsOf(table)

\* the comparator of the claim, written from the sort options: the keys of
\* the sort column compared as text, number or date, negated for descending
ClaimedOrder(a, b) == SortComparison(a, b, op.options)

\* C12: sortTable is a stable sort in both directions: the data rows of the
\* output are ordered by the comparator (negated for descending), two data
\* rows whose keys compare equal keep their input order, and sorting the
\* output again with the same options changes nothing.
C12_StableSort ==
    Sorted =>
        LET in  == DataRowsOf(table)
            out == DataRowsOf(result)
            n   == Len(in)
        IN  /\ Len(out) = n
            /\ \E from \in [1..n -> 1..n] :
                   /\ \A k, l \in 1..n : k # l => from[k] # from[l]
                   /\ \A k \in 1..n : out[k] = in[from[k]]
                   /\ \A k, l \in 1..n :
                          k < l => /\ ClaimedOrder(out[k], out[l]) <= 0
                                   /\ ClaimedOrder(out[k], out[l]) = 0 => from[k] < from[l]
            /\ sortTable(result, op.options) = result

\* two different data rows with equal keys were sorted, descending, together
\* with a row that had to move
C12_Witness ==
    /\ Sorted
    /\ op.options.direction = "descending"
    /\ LET in == DataRowsOf(table)
       IN  /\ \E i, j \in 1..Len(in) : i < j /\ in[i] # in[j] /\ ClaimedOrder(in[i], in[j]) = 0
           /\ DataRowsOf(result) # in

\* the first place in the text where a number starts: a digit, or a point
\* or sign directly followed by what makes a number
RECURSIVE FirstNumericRun(_)
FirstNumericRun(s) ==
    IF s = <<>> THEN NaN
    ELSE IF ~parseFloat(s).nan /\ Head(s) # " " /\ Head(s) # "+" THEN parseFloat(s)
    ELSE FirstNumericRun(Tail(s))

\* the numeric key as C13 states it: the first signed/decimal numeric run of
\* the cell, 0 when there is none
FirstRunKey(row) == OrZero(FirstNumericRun(ElemOr(row, op.options.columnIndex, <<>>)))

\* the numeric key of the code: the number at the start of what is left of
\* the cell when every character but digits, points and minus signs is
\* removed, 0 when that does not start with a number
StrippedKey(row) ==
    LET cell == ElemOr(row, op.options.columnIndex, <<>>)
        kept == SelectSeq(cell, LAMBDA c : c \in {"0", "1", "2", "3", "4", "5", "6", "7", "8", "9", ".", "-"})
    IN  OrZero(parseFloat(kept))

SortedNumeric == Sorted /\ op.options.sortType = "numeric"

\* the keys of the data rows of the output never fall (ascending) or never
\* rise (descending)
OrderedByKey(Key(_)) ==
    LET out == DataRowsOf(result)
    IN  \A i, j \in 1..Len(out) :
            i < j => IF op.options.direction = "descending"
                     THEN NumberCompare(Key(out[i]), Key(out[j])) >= 0
                     ELSE NumberCompare(Key(out[i]), Key(out[j])) <= 0

\* C13 as stated: with sortType = numeric the key of a cell is the value of
\* the first signed/decimal numeric run in the cell text, 0 when there is
\* none, and the rows are ordered by these keys.
C13_Original == SortedNumeric => OrderedByKey(FirstRunKey)

\* C13, amended: with sortType = numeric the key of a cell is the number at
\* the start of the cell text from which every character other than a
\* digit, a point or a minus sign has been removed (so the digits on both
\* sides of a removed character run together), 0 when that text does not
\* start with a number; the rows are ordered by these keys, so 2 < 10 < 20.
C13_NumericKeys == SortedNumeric => OrderedByKey(StrippedKey)

\* a numeric sort put 2 before 10 and 10 before the cell 1a2, whose digits
\* run together to 12
C13_Witness ==
    /\ SortedNumeric
    /\ op.options.direction = "ascending"
    /\ op.options.columnIndex = 0
    /\ LET out == DataRowsOf(result)
       IN  /\ Len(out) = 3
           /\ out[1][1] = <<"2">>
           /\ out[2][1] = <<"1", "0">>
           /\ out[3][1] = <<"1", "a", "2">>
           /\ DataRowsOf(table) # out

-----------------------------------------------------------------------------
(* Claims about transposing, checked under SpecTranspose *)

\* the header row followed by the data rows
MatrixOf(t) == <<t.rows[1]>> \o DataRowsOf(t)

\* header and all data rows have the same length >= 1
IsRectangular(t) ==
    /\ Len(t.rows[1]) >= 1
    /\ \A r \in 1..Len(MatrixOf(t)) : Len(MatrixOf(t)[r]) = Len(t.rows[1])

\* the separator is unmarked dashes, one cell per column, and no column is aligned
RegeneratedSeparator(t) ==
    /\ t.separatorIndex = 1
    /\ Len(t.rows[2]) = Len(t.rows[1])
    /\ \A c \in 1..Len(t.rows[2]) : t.rows[2][c] = <<"-", "-", "-">>
    /\ t.alignments = [c \in 1..Len(t.rows[1]) |-> "none"]

\* C14: for every rectangular table transposeTable maps the cell at (row r,
\* column c) of the header-plus-data matrix to (row c, column r), and
\* transposing twice gives the same header cells and the same data cells in
\* the same positions, with a regenerated unmarked separator and all
\* alignments reset to none.
C14_TransposeInvolution ==
    (op.name = "transposeTable" /\ IsRectangular(table)) =>
        /\ pc = "done" =>
              LET m == MatrixOf(table)
                  n == MatrixOf(result)
              IN  /\ Len(n) = Len(m[1])
                  /\ \A c \in 1..Len(n) :
                        /\ Len(n[c]) = Len(m)
                        /\ \A r \in 1..Len(m) : n[c][r] = m[r][c]
                  /\ RegeneratedSeparator(result)
        /\ pc = "back" =>
              /\ MatrixOf(result) = MatrixOf(table)
              /\ RegeneratedSeparator(result)

\* a table of two columns with a data row and marked alignments was
\* transposed twice
C14_Witness ==
    /\ pc = "back"
    /\ IsRectangular(table)
    /\ Len(table.rows) >= 3
    /\ Len(table.rows[1]) >= 2
    /\ table.alignments # result.alignments

-----------------------------------------------------------------------------
(* Claims about the CSV codec, checked under SpecCsv *)

\* tableToCsv was called with the options of C15: a header on both sides and
\* a fixed delimiter (quoteStrings is auto or always in every option value)
CsvRoundTripped ==
    /\ pc = "done"
    /\ op.name = "tableToCsv"
    /\ op.options.hasHeader
    /\ op.options.includeHeader
    /\ op.options.delimiter = <<",">>

\* C15 as stated: tableToCsv(parseCsv(text, o), o) encodes exactly the rows
\* and cell values encoded by text: read back with the same options it gives
\* the header row first and every data row and cell value in order.
C15_Original ==
    CsvRoundTripped => parseCsv(result.text, op.options).rows = table.rows

\* what does hold: the round trip of a text none of whose rows consists of
\* a single cell that is empty or blank
C15_RoundTripOfVisibleRows ==
    (CsvRoundTripped /\ \A r \in 1..Len(table.rows) :
                            ~(Len(table.rows[r]) = 1 /\ Trim(table.rows[r][1]) = <<>>)) =>
        parseCsv(result.text, op.options).rows = table.rows

\* the last operation ended in an exception
EndedInException == "raised" \in DOMAIN result

\* C18 as stated: no core operation ends in an exception: for every input
\* text, the empty and the blank ones included, parseCsv returns a table, and
\* compactTable, formatTable and tableToCsv applied to that table return
\* normally.
C18_Original == pc \in {"parsed", "done"} => ~EndedInException

-----------------------------------------------------------------------------
(* Claims about row numbers, checked under SpecNumbers *)

Numbered == pc = "done" /\ op.name = "addRowNumbers"

\* the separator marker of an alignment in the wire grammar
MarkerOf(alignment) ==
    CASE alignment = "left"   -> <<":", "-", "-", "-">>
      [] alignment = "right"  -> <<"-", "-", "-", ":">>
      [] alignment = "center" -> <<":", "-", "-", "-", ":">>
      [] OTHER                -> <<"-", "-", "-">>

\* the first column of the table was detected as a row-number column
Detected == hasRowNumbers(table, op.options.headerText)

\* the result has a number column in front as C16 describes it, with the
\* given marker in the separator
NumberColumnAsClaimed(marker) ==
    LET shift == IF Detected THEN 0 ELSE 1
    IN  /\ Len(result.rows) = Len(table.rows)
        /\ \A r \in 1..Len(table.rows) :
              /\ Len(result.rows[r]) = Len(table.rows[r]) + shift
              /\ \A c \in 2 - shift..Len(table.rows[r]) :
                    result.rows[r][c + shift] = table.rows[r][c]
        /\ Len(result.alignments) = Len(table.alignments) + shift
        /\ \A c \in 2 - shift..Len(table.alignments) :
              result.alignments[c + shift] = table.alignments[c]
        /\ result.alignments[1] = op.options.alignment
        /\ result.rows[1][1] = op.options.headerText
        /\ result.rows[2][1] = marker
        /\ \A j \in 0..Len(table.rows) - 3 :
              result.rows[j + 3][1] = DecimalText(op.options.startNumber + j)

\* C16 as stated: addRowNumbers overwrites a detected row-number column and
\* otherwise inserts a new leading column; the header's first cell is
\* o.headerText, the separator's first cell is the marker for o.alignment,
\* the j-th data row has the decimal text of o.startNumber + j, and all
\* other cells keep their value and order.
C16_Original == Numbered => NumberColumnAsClaimed(MarkerOf(op.options.alignment))

\* what does hold: the same for the alignments left, center and right
C16_NumberColumnUnlessNone ==
    (Numbered /\ op.options.alignment # "none") =>
        NumberColumnAsClaimed(MarkerOf(op.options.alignment))

-----------------------------------------------------------------------------
(* Claims about padCell, checked under SpecPad *)

PaddedCell == pc = "done" /\ op.name = "padCell"

\* the spaces C17 puts in front of the content
ClaimedLeadingSpaces ==
    LET p == op.width - Len(op.content)
    IN  CASE op.alignment = "right"  -> p
          [] op.alignment = "center" -> p \div 2
          [] OTHER                   -> 0

-----------------------------------------------------------------------------
(* Claims about arguments, checked under SpecCalls *)

Called == pc = "done" /\ op.name \in {"insertRow", "moveColumn"}

\* C19 as stated: no core operation modifies any of its arguments: after the
\* call the input table and every array passed in (the optional cells array
\* of insertRow in particular) are unchanged, and a table that is returned
\* is a new value.
C19_Original ==
    Called => /\ op.after = op.before
              /\ ~op.returnsArgument

-----------------------------------------------------------------------------
(* Claims about the break column, checked under SpecFormat *)

\* the number of columns: the longest row of the table
ClaimedColumnCount ==
    CHOOSE n \in {Len(table.rows[r]) : r \in 1..Len(table.rows)} :
        \A r \in 1..Len(table.rows) : n >= Len(table.rows[r])

ClaimedPaddingPerCell == IF op.options.cellPadding THEN 2 ELSE 0

\* 1 + the sum over the columns j <= i of columnWidths[j] + paddingPerCell + 1
RECURSIVE ClaimedAccumulated(_)
ClaimedAccumulated(i) ==
    IF i < 0 THEN 1
    ELSE ClaimedAccumulated(i - 1) + ClaimedColumnWidth(i + 1) + ClaimedPaddingPerCell + 1

\* the first column whose accumulated width is over maxWidth, columnCount
\* when there is none
ClaimedBreakColumnIndex ==
    LET over == {i \in 0..ClaimedColumnCount - 1 : ClaimedAccumulated(i) > op.options.maxWidth}
    IN  IF over = {} THEN ClaimedColumnCount
        ELSE CHOOSE i \in over : \A j \in over : i <= j

ClaimedAvailableWidth ==
    op.options.maxWidth - ClaimedAccumulated(ClaimedBreakColumnIndex - 1)
        - ClaimedPaddingPerCell - 1

\* the longest of the break column's header and data cells that are not
\* longer than the available width, at least 3
ClaimedFittingWidth ==
    LET lens == { Len(At(table.rows[r], ClaimedBreakColumnIndex)) :
                    r \in { q \in 1..Len(table.rows) :
                               /\ ~IsSeparatorRow(q)
                               /\ ClaimedBreakColumnIndex < Len(table.rows[q]) } }
        fits == { x \in lens : x <= ClaimedAvailableWidth } \cup {3}
    IN  CHOOSE w \in fits : \A x \in fits : w >= x

\* the cell brought to the given width by adding spaces, with or without
\* the cell padding around it
Renderings(cell, width) ==
    { Padded(padCell(cell, width, a), p) : a \in ColumnAlignments, p \in BOOLEAN }

\* the width C20 gives the cell of 0-based column c
ClaimedCellWidth(cell, c) ==
    IF c < ClaimedBreakColumnIndex THEN ClaimedColumnWidth(c + 1)
    ELSE IF c = ClaimedBreakColumnIndex /\ Len(cell) <= ClaimedFittingWidth
         THEN ClaimedFittingWidth
    ELSE Len(cell)

FormattedSeparatorPieces == Pieces(result.lines[table.separatorIndex + 1])

\* C21 as stated: in the separator row of formatTable, with
\* preserveAlignment each cell i carries exactly the colon markers of the
\* source alignment alignments[i], and without preserveAlignment no cell of
\* the separator row holds a colon, whatever the table, the column's place
\* relative to the break column and maxWidth.
C21_Original ==
    Formatted =>
        /\ Len(FormattedSeparatorPieces) = Len(table.rows[table.separatorIndex + 1])
        /\ \A k \in 1..Len(FormattedSeparatorPieces) :
              IF op.options.preserveAlignment
              THEN MarkerAlignment(FormattedSeparatorPieces[k]) = table.alignments[k]
              ELSE ~Includes(FormattedSeparatorPieces[k], <<":">>)

\* what holds of C21: with preserveAlignment the source's markers are carried
\* through, and without it the cells from the break column on that are
\* rendered compact hold no colon
C21_MarkersWithPreserveAlignment ==
    Formatted /\ op.options.preserveAlignment =>
        /\ Len(FormattedSeparatorPieces) = Len(table.rows[table.separatorIndex + 1])
        /\ \A k \in 1..Len(FormattedSeparatorPieces) :
              MarkerAlignment(FormattedSeparatorPieces[k]) = table.alignments[k]

\* L of C27: the trimmed lengths of the source's separator cells
SourceSeparatorLengths ==
    [k \in 1..Len(table.rows[table.separatorIndex + 1]) |->
        Len(Trim(table.rows[table.separatorIndex + 1][k]))]

\* T of C27: the sum of the target column widths of the operation
TargetTotalWidth ==
    IF op.name = "compactTable"
    THEN Sum([k \in 1..Len(table.rows[1]) |->
                 IF op.options.alignSeparatorWithHeader
                 THEN Max(3, Len(table.rows[1][k])) ELSE 3])
    ELSE Sum([k \in 1..ClaimedColumnCount |-> ClaimedColumnWidth(k)])

\* max(3, round(L_k * T / sum(L))), the half rounded upward
ClaimedSeparatorWidth(k) ==
    LET share == SourceSeparatorLengths[k] * TargetTotalWidth
        total == Sum(SourceSeparatorLengths)
    IN  Max(3, (IF 2 * (share % total) >= total THEN 1 ELSE 0) + share \div total)

\* the separator line an operation returned, piece by piece, without padding
ReturnedMarkers ==
    LET pieces == Pieces(result.lines[table.separatorIndex + 1])
    IN  [k \in 1..Len(pieces) |-> Trim(pieces[k])]

\* C27: with keepSeparatorRatios, the marker of separator cell i from
\* compactTable and from formatTable is max(3, round(L_i * T / sum(L))) long,
\* L the trimmed lengths of the source's separator cells and T the sum of the
\* target column widths; in formatTable only the separator row is affected:
\* every other row is as without keepSeparatorRatios.
C27_ProportionalSeparatorWidths ==
    (Compacted \/ Formatted) /\ op.options.keepSeparatorRatios =>
        /\ Len(ReturnedMarkers) = Len(SourceSeparatorLengths)
        /\ \A k \in 1..Len(ReturnedMarkers) :
              Len(ReturnedMarkers[k]) = ClaimedSeparatorWidth(k)
        /\ Formatted =>
              LET plain == formatTable(table, [op.options EXCEPT !.keepSeparatorRatios = FALSE],
                                       op.compactOptions)
              IN  /\ Len(plain) = Len(result.lines)
                  /\ \A r \in 1..Len(plain) : ~IsSeparatorRow(r) => result.lines[r] = plain[r]

\* formatTable gave a separator cell a share above the minimum that was
\* rounded up, under a width limit
C27_Witness ==
    /\ Formatted
    /\ op.options.keepSeparatorRatios
    /\ op.options.maxWidth > 0
    /\ \E k \in 1..Len(SourceSeparatorLengths) :
          /\ ClaimedSeparatorWidth(k) > 3
          /\ 2 * ((SourceSeparatorLengths[k] * TargetTotalWidth) % Sum(SourceSeparatorLengths))
                >= Sum(SourceSeparatorLengths)
          /\ (SourceSeparatorLengths[k] * TargetTotalWidth) % Sum(SourceSeparatorLengths) # 0

\* C29 as stated: compactTable is idempotent for every CompactOptions value,
\* keepSeparatorRatios included: the lines compactTable returned, located
\* again and compacted with the same options, come back unchanged.
C29_Original ==
    pc = "relocated" /\ op.name = "compactTable" =>
        /\ Len(tables) = 1
        /\ compactTable(tables[1], op.options) = result.lines

\* what holds of C29: without keepSeparatorRatios the compacted lines are a
\* fixed point of compactTable
C29_IdempotentWithoutRatios ==
    pc = "relocated" /\ op.name = "compactTable" /\ ~op.options.keepSeparatorRatios =>
        /\ Len(tables) = 1
        /\ compactTable(tables[1], op.options) = result.lines

-----------------------------------------------------------------------------
(* Claims about moving a column, checked under SpecCalls *)

MovedColumn == pc = "done" /\ op.name = "moveColumn"

\* the index the column is to go to
ClaimedTargetColumn ==
    IF op.before.direction = "left" THEN op.before.columnIndex - 1
    ELSE op.before.columnIndex + 1

\* columns k and the target are exchanged in every row that holds both, and
\* in alignments
ColumnsExchanged ==
    LET k == op.before.columnIndex + 1
        j == ClaimedTargetColumn + 1
    IN  /\ result # Absent
        /\ Len(result.rows) = Len(table.rows)
        /\ \A r \in 1..Len(table.rows) :
              Len(table.rows[r]) >= Max(k, j) =>
                  result.rows[r] = [table.rows[r] EXCEPT ![k] = table.rows[r][j],
                                                         ![j] = table.rows[r][k]]
        /\ Len(table.alignments) >= Max(k, j) =>
              result.alignments = [table.alignments EXCEPT ![k] = table.alignments[j],
                                                           ![j] = table.alignments[k]]

\* C25 as stated: moveColumn returns the explicit rejected value, not a table,
\* whenever the target column index lies outside [0, column count), and leaves
\* the input table untouched; otherwise it exchanges the column and the target
\* in every row and in alignments.
C25_Original ==
    MovedColumn =>
        IF ClaimedTargetColumn < 0 \/ ClaimedTargetColumn >= Len(table.rows[1])
        THEN result = Absent /\ op.after.table = op.before.table
        ELSE ColumnsExchanged

\* what holds of C25: an in-range move exchanges the two columns, and an
\* out-of-range move returns the table that was passed in
C25_ExchangeOrSameTable ==
    MovedColumn =>
        IF ClaimedTargetColumn < 0 \/ ClaimedTargetColumn >= Len(table.rows[1])
        THEN result = table /\ op.after.table = op.before.table
        ELSE ColumnsExchanged

-----------------------------------------------------------------------------
(* Claims about the CSV line scan, checked under SpecCsv *)

\* the two-state scan of a line from position i on, as a reference: with
\* anywhere set, a doubled double quote is a literal one in either state,
\* otherwise only inside quotes
RECURSIVE ClaimedScan(_, _, _, _, _, _)
ClaimedScan(line, anywhere, i, current, inQuotes, fields) ==
    IF i > Len(line) THEN Append(fields, current)
    ELSE IF line[i] = Quote /\ i < Len(line) /\ line[i + 1] = Quote /\ (anywhere \/ inQuotes)
    THEN ClaimedScan(line, anywhere, i + 2, Append(current, Quote), inQuotes, fields)
    ELSE IF line[i] = Quote
    THEN ClaimedScan(line, anywhere, i + 1, current, ~inQuotes, fields)
    ELSE IF line[i] = "," /\ ~inQuotes
    THEN ClaimedScan(line, anywhere, i + 1, <<>>, inQuotes, Append(fields, current))
    ELSE ClaimedScan(line, anywhere, i + 1, Append(current, line[i]), inQuotes, fields)

\* parseCsv has read the text without a header and without trimming, so its
\* rows are what parseCsvLine returned for the lines that are not blank
ScannedLines == pc = "parsed" /\ ~op.options.hasHeader /\ ~op.options.trimCells

\* the rows the reference scan gives for the lines that are not blank
ClaimedRows(anywhere) ==
    LET kept == SelectSeq(lines, LAMBDA line : Trim(line) # <<>>)
    IN  [k \in 1..Len(kept) |-> ClaimedScan(kept[k], anywhere, 1, <<>>, FALSE, <<>>)]

\* C26 as stated: a double quote immediately followed by another emits one
\* literal double quote and consumes both, in either state; any other double
\* quote toggles the in-quotes state and emits nothing; the delimiter ends the
\* field only outside quotes; every other character is appended; so there
\* is one field more than delimiters outside quotes.
C26_Original == ScannedLines => result.rows = ClaimedRows(TRUE)

\* C26, amended: a doubled double quote is a literal one only inside quotes;
\* outside quotes each double quote toggles the state, so "" is an empty
\* quoted field.
C26_CsvLineScan == ScannedLines => result.rows = ClaimedRows(FALSE)

\* a quoted field that holds an escaped double quote was read
C26_Witness ==
    /\ ScannedLines
    /\ \E r \in 1..Len(result.rows) : \E c \in 1..Len(result.rows[r]) :
          result.rows[r][c] = <<Quote>>

-----------------------------------------------------------------------------
(* Claims about moving a row, checked under SpecRows *)

MovedRow == pc = "done" /\ op.name = "moveRow"

\* j of C24: the row index the row is to go to
ClaimedTargetRow == IF op.direction = "up" THEN op.rowIndex - 1 ELSE op.rowIndex + 1

\* the condition C24 gives for the rejection
ClaimedRowRejection ==
    \/ op.rowIndex \in {0, table.separatorIndex}
    \/ ClaimedTargetRow \in {0, table.separatorIndex}
    \/ op.rowIndex \notin 0..Len(table.rows) - 1
    \/ ClaimedTargetRow \notin 0..Len(table.rows) - 1

\* the result is the table with rows i and j exchanged, a permutation of its
\* rows, and the opposite move from j restores the table
RowsExchanged ==
    LET i == op.rowIndex + 1
        j == ClaimedTargetRow + 1
    IN  /\ result = [table EXCEPT !.rows = [table.rows EXCEPT ![i] = table.rows[j],
                                                              ![j] = table.rows[i]]]
        /\ SameMultiset(result.rows, table.rows)
        /\ moveRow(result, ClaimedTargetRow,
                   IF op.direction = "up" THEN "down" ELSE "up") = table

\* C24 as stated: for every table and every row index i, moveRow with target
\* j returns the rejection value iff i or j is the header index 0 or the
\* separator index, or i or j lies outside [0, rows.length); otherwise the
\* result is the table with rows i and j exchanged, a permutation of its rows
\* that the opposite move undoes.
C24_Original ==
    MovedRow =>
        /\ (result = Absent) <=> ClaimedRowRejection
        /\ result # Absent => RowsExchanged

\* what holds of C24: the statement for the row indices inside the table
C24_MoveRowInRange ==
    MovedRow /\ op.rowIndex \in 0..Len(table.rows) - 1 =>
        /\ (result = Absent) <=> ClaimedRowRejection
        /\ result # Absent => RowsExchanged

-----------------------------------------------------------------------------
(* Claims about removing row numbers, checked under SpecNumbers *)

\* removeRowNumbers has run on the table addRowNumbers returned for a table
\* in which addRowNumbers detected no number column
RemovedAfterAdding == pc = "removed" /\ ~Detected

\* C28 as stated: for every table t in which no row-number column is detected
\* and every RowNumberOptions value o, whatever its headerText, startNumber
\* and alignment, removeRowNumbers(addRowNumbers(t, o)) is not the absent
\* value and has the rows and alignments of t.
C28_Original ==
    RemovedAfterAdding =>
        /\ result # Absent
        /\ result.rows = table.rows
        /\ result.alignments = table.alignments

\* what holds of C28: the statement for the header texts that the default
\* detection knows
C28_RemoveUndoesAddOfKnownHeader ==
    RemovedAfterAdding /\ op.options.headerText = <<"#">> =>
        /\ result # Absent
        /\ result.rows = table.rows
        /\ result.alignments = table.alignments

-----------------------------------------------------------------------------
(* Claims about chains of edits, checked under SpecEdits *)

\* the mutators used so far in the chain of edits
UsedEdits == IF "used" \in DOMAIN op THEN op.used ELSE {}

\* the column mutators of the lockstep claim
ColumnEdits ==
    {"insertColumn", "removeColumn", "moveColumn", "setColumnAlignment", "addRowNumbers"}

\* every row has as many cells as the header row and as alignments has entries
CellCountsInLockstep(t) ==
    \A r \in 1..Len(t.rows) :
        /\ Len(t.rows[r]) = Len(t.rows[1])
        /\ Len(t.rows[r]) = Len(t.alignments)

\* the alignment read from the separator cell of every column is the
\* alignment kept for that column
MarkersInLockstep(t) ==
    \A k \in 1..Len(t.alignments) :
        getAlignmentFromSeparator(At(t.rows, t.separatorIndex)[k]) = t.alignments[k]

\* C22 as stated: after any chain of insertColumn, removeColumn, moveColumn,
\* setColumnAlignment and addRowNumbers calls with in-range indices and any
\* alignment, every row has the same number of cells, alignments has that
\* length, and the alignment read from each separator cell is alignments[k].
\* insertColumn and addRowNumbers with the alignment none write the marker
\* :--- next to the alignment none.
C22_Original ==
    (pc = "located" /\ UsedEdits \subseteq ColumnEdits)
        => (CellCountsInLockstep(table) /\ MarkersInLockstep(table))

\* what the column mutators do keep: the cell counts of the rows and the
\* length of alignments stay equal after any chain of them
C22_CellCountsInLockstep ==
    (pc = "located" /\ UsedEdits \subseteq ColumnEdits) => CellCountsInLockstep(table)

C22_Witness ==
    /\ pc = "located"
    /\ UsedEdits = {"insertColumn", "moveColumn", "removeColumn"}
    /\ Len(table.alignments) = 2

\* the row mutators of the line-span claim
RowSpanEdits == {"insertRow", "insertRowAboveData", "duplicateRow", "removeRow"}

\* rows.length = endLine - startLine + 1
SpansItsRows(t) == Len(t.rows) = t.endLine - t.startLine + 1

\* the last edit was one of insertRow, duplicateRow and removeRow on a table
\* that spans its rows, and it was not rejected
RowEditNotRejected ==
    /\ pc = "located"
    /\ op.name \in {"insertRow", "duplicateRow", "removeRow"}
    /\ SpansItsRows(op.before)
    /\ result # Absent

\* the bookkeeping of the claim for the last edit: rows.length and endLine
\* move together by one, up for insertRow and duplicateRow and down for
\* removeRow, startLine stays, and separatorIndex moves by one exactly when
\* the index is at or before the separator
RowEditKeepsBooks ==
    LET step == IF op.name = "removeRow" THEN -1 ELSE 1
        moved == IF op.index <= op.before.separatorIndex THEN step ELSE 0
    IN  /\ "rows" \in DOMAIN result
        /\ Len(result.rows) = Len(op.before.rows) + step
        /\ result.endLine = op.before.endLine + step
        /\ result.startLine = op.before.startLine
        /\ result.separatorIndex = op.before.separatorIndex + moved

\* C23 as stated: every non-rejected insertRow or duplicateRow with an index
\* in [0, rows.length] and every non-rejected removeRow with an index in
\* [0, rows.length) keeps the books, so rows.length = endLine - startLine + 1
\* after any chain of them.  duplicateRow with the index rows.length spreads
\* the missing row and raises: it neither rejects nor returns a table.
C23_Original ==
    /\ RowEditNotRejected => RowEditKeepsBooks
    /\ (pc = "located" /\ UsedEdits \subseteq RowSpanEdits) => SpansItsRows(table)

\* what the row mutators do keep: a returned table has its books kept, and
\* the table spans its rows after any chain of them
C23_ReturnedTableKeepsBooks ==
    /\ (RowEditNotRejected /\ "rows" \in DOMAIN result) => RowEditKeepsBooks
    /\ (pc = "located" /\ UsedEdits \subseteq RowSpanEdits) => SpansItsRows(table)

C23_Witness ==
    /\ RowEditNotRejected
    /\ {"insertRowAboveData", "duplicateRow"} \subseteq UsedEdits
    /\ "rows" \in DOMAIN result
    /\ op.name = "removeRow"
    /\ op.index < op.before.separatorIndex

\* the table is one the locator accepts: the separator is row 1 under the
\* header at row 0, and every cell of row 1 is a separator cell
ValidTable(t) ==
    /\ t.separatorIndex = 1
    /\ Len(t.rows) >= 2
    /\ \A k \in 1..Len(At(t.rows, 1)) : SeparatorCellRegex(At(t.rows, 1)[k])

\* the tables the locator finds in the compacted lines of the table
RelocatedTables(t) == findTables(compactTable(t, getDefaultCompactOptions), FALSE)

\* the locator finds exactly one table in the compacted lines, with as many
\* rows as the table has
RelocatedAsOne(t) ==
    /\ Len(RelocatedTables(t)) = 1
    /\ Len(RelocatedTables(t)[1].rows) = Len(t.rows)

\* the chain of edits has no insertRow above the data rows
ChainOfValidEdits == pc = "located" /\ "insertRowAboveData" \notin UsedEdits

\* C30 as stated: after any chain of insertRow at an index >= 2, removeRow,
\* moveRow, duplicateRow, sortTable, addRowNumbers, removeRowNumbers,
\* transposeTable and in-range insertColumn, removeColumn, moveColumn and
\* setColumnAlignment, the table is valid and the locator finds exactly one
\* table with the same number of rows in its compacted lines.
C30_Original ==
    ChainOfValidEdits => (ValidTable(table) /\ RelocatedAsOne(table))

\* what the chain does keep: the separator stays row 1 under the header and
\* its cells stay separator cells
C30_ValidTableKept ==
    ChainOfValidEdits => ValidTable(table)

\* what the chain does keep beyond that: while the table has a column and
\* its header line does not read as a separator, the locator finds it again
\* in its compacted lines
C30_RelocatedWhileHeaderRemains ==
    (/\ ChainOfValidEdits
     /\ table.rows[1] # <<>>
     /\ ~isTableSeparator(compactTable(table, getDefaultCompactOptions)[1]))
        => RelocatedAsOne(table)

=============================================================================
